---- MODULE Spec2Model ----
(***************************************************************************)
(* Model of the GURT study backend: the document-ingest workflow           *)
(* (backend/ingest_workflow.py driven by the DocsIngestStateMachine of     *)
(* infra/stacks/api_stack.py), the card review path and the Canvas sync    *)
(* of backend/runtime.py, and the calendar tokens of gurt/calendar_tokens  *)
(* with the ICS feed of backend/runtime.py.  The chat and flashcard        *)
(* generation requests (backend/generation.py and their handlers), the     *)
(* dispatcher's responses, GET /study/today and study/fsrs.schedule_review *)
(* follow.                                                                 *)
(*                                                                         *)
(* Strings the code strips, measures or concatenates are sequences of      *)
(* one-character strings, so that str.strip, len and f-string formatting   *)
(* are computed, not assumed.  The updatedAt stamps of ingest rows are not *)
(* modelled.                                                               *)
(***************************************************************************)
EXTENDS Integers, Sequences, FiniteSets, TLC

VARIABLES
    docs,           \* DOCS_TABLE: jobId -> IngestJob row
    exec,           \* state-machine execution of each job: position, payload
    nextJob,        \* number of the next job id _start_ingest_job draws
    kbCalls,        \* start_ingestion_job calls made by finalize (history)
    lastFinalize,   \* the latest finalize invocation: what it wrote and returned (history)
    statusHistory,  \* successive distinct statuses each row has held (history)
    invocations,    \* direct invocations of the finalize handler so far
    env,            \* environment variables of the Lambdas
    cards,          \* CARDS_TABLE: cardId -> card row
    reviews,        \* POST /study/review requests: position, payload, row read
    nextReview,     \* number of the next review request
    generations,    \* cards persisted by generation requests so far
    sync,           \* the running sync request: position, counters, response
    syncLog,        \* writes of the running sync request, in order (history)
    syncRuns,       \* sync requests started so far
    apiEnv,         \* environment variables of the API Lambda
    calendarTokens, \* CALENDAR_TOKENS_TABLE: token -> stored item
    canvasData,     \* CANVAS_DATA_TABLE: <<pk, sk>> -> course or item row
    revocation,     \* the running store.revoke call: position, record read
    lastRecord,     \* the record the latest mint or revoke returned (history)
    feed,           \* the latest GET /calendar/{token}.ics: record read, response
    calendarOps,    \* mint, revoke and row-write operations started so far
    factoryTokens,  \* tokens token_factory has drawn so far
    generation,     \* the running chat or generation request: position, calls, response
    evaluation      \* the function under evaluation: its inputs and its result

ingestVars == <<docs, exec, nextJob, kbCalls, lastFinalize, statusHistory, invocations, env>>
studyVars == <<cards, reviews, nextReview, generations>>
syncVars == <<sync, syncLog, syncRuns, apiEnv>>
calendarVars ==
    <<calendarTokens, canvasData, revocation, lastRecord, feed, calendarOps, factoryTokens>>
callVars == <<evaluation>>
generationVars == <<generation>>
nonIngestVars == <<studyVars, syncVars, calendarVars, generationVars, callVars>>
nonStudyVars == <<ingestVars, syncVars, calendarVars, generationVars, callVars>>
nonSyncVars == <<ingestVars, studyVars, calendarVars, generationVars, callVars>>
nonCalendarVars == <<ingestVars, studyVars, syncVars, generationVars, callVars>>
nonGenerationVars == <<ingestVars, studyVars, syncVars, calendarVars, callVars>>
nonCallVars == <<ingestVars, studyVars, syncVars, calendarVars, generationVars>>
vars == <<ingestVars, studyVars, syncVars, calendarVars, generationVars, callVars>>

----------------------------------------------------------------------------
(* Bounds *)

MaxJobs == 1
MaxPolls == 2
MaxFinalizeRetries == 1
MaxInvocations == 2
MaxReviews == 2
MaxGenerations == 2
MaxSyncRuns == 1
MaxCalendarOps == 3

----------------------------------------------------------------------------
(* Strings as character sequences *)

Whitespace == {" ", "\n"}

RECURSIVE LStrip(_)
LStrip(s) ==
    IF s = <<>> THEN <<>>
    ELSE IF Head(s) \in Whitespace THEN LStrip(Tail(s)) ELSE s

RECURSIVE RStrip(_)
RStrip(s) ==
    IF s = <<>> THEN <<>>
    ELSE IF s[Len(s)] \in Whitespace THEN RStrip(SubSeq(s, 1, Len(s) - 1)) ELSE s

\* str.strip()
Strip(s) == RStrip(LStrip(s))

DigitChars == <<"0", "1", "2", "3", "4", "5", "6", "7", "8", "9">>

\* str(n) for a non-negative int, as the f-string renders len(text)
RECURSIVE Decimal(_)
Decimal(n) ==
    IF n < 10 THEN <<DigitChars[n + 1]>>
    ELSE Decimal(n \div 10) \o <<DigitChars[(n % 10) + 1]>>

Rep(c, n) == [i \in 1..n |-> c]

EndsWith(s, suffix) ==
    /\ Len(s) >= Len(suffix)
    /\ SubSeq(s, Len(s) - Len(suffix) + 1, Len(s)) = suffix

\* "\n".join(lines)
RECURSIVE JoinLines(_)
JoinLines(lines) ==
    IF lines = <<>> THEN <<>>
    ELSE IF Len(lines) = 1 THEN lines[1]
    ELSE lines[1] \o <<"\n">> \o JoinLines(Tail(lines))

\* A row attribute that is not present on the item.
NoAttr == <<"<absent>">>

----------------------------------------------------------------------------
(* Input domains *)

JobIdOf(n) == <<"j">> \o Decimal(n)
JobIds == {JobIdOf(n) : n \in 1..MaxJobs}

DocIdValue == <<"d">>
CourseIdValue == <<"c">>
BucketValue == <<"b">>

PdfKey == <<"a", ".", "p", "d", "f">>
DocKey == <<"a", ":", "1", ".", "D", "o", "c">>
SourceKeys == {PdfKey, DocKey}

ThresholdDefault == 200

\* Texts the extractors can produce: empty, blank, just under / at the
\* threshold, and padded so that len(text) >= threshold > len(text.strip()).
ExtractedTexts ==
    { <<>>,
      Rep("x", ThresholdDefault - 1),
      Rep("x", ThresholdDefault),
      <<" ">> \o Rep("x", ThresholdDefault - 1) }

----------------------------------------------------------------------------
(* Environment of the finalize Lambda *)

\* _kb_ingestion_env_ids
_kb_ingestion_env_ids(e) ==
    LET kb_id == Strip(e.KNOWLEDGE_BASE_ID)
        ds0 == Strip(e.KNOWLEDGE_BASE_DATA_SOURCE_ID)
        ds == IF ds0 = <<>> THEN Strip(e.DATA_SOURCE_ID) ELSE ds0
    IN <<kb_id, ds>>

----------------------------------------------------------------------------
(* DOCS_TABLE rows *)

Row(job_id, doc_id, course_id, source_key, status, textLength, used_textract, error) ==
    [ jobId |-> job_id,
      sourceDocId |-> doc_id,
      courseId |-> course_id,
      sourceKey |-> source_key,
      status |-> status,
      textLength |-> textLength,
      usedTextract |-> used_textract,
      error |-> error,
      kbIngestionJobId |-> NoAttr,
      kbIngestionError |-> NoAttr ]

\* table.put_item(Item=...): the whole item is replaced
PutItem(table, key, item) == (key :> item) @@ table

\* _persist_status
_persist_status(table, job_id, doc_id, course_id, source_key, status, text, used_textract, error) ==
    PutItem(table, job_id,
            Row(job_id, doc_id, course_id, source_key, status, Len(text), used_textract, error))

\* _persist_kb_ingestion_result: update_item SET of the attributes given
\* (None is NoAttr); the other attributes of the row are kept.
_persist_kb_ingestion_result(table, job_id, ingestion_job_id, ingestion_error) ==
    [table EXCEPT
        ![job_id].kbIngestionJobId =
            IF ingestion_job_id # NoAttr THEN ingestion_job_id ELSE @,
        ![job_id].kbIngestionError =
            IF ingestion_error # NoAttr THEN ingestion_error ELSE @]

----------------------------------------------------------------------------
(* finalize_handler *)

MissingKbConfigMessage == <<"server misconfiguration: KB ids required">>
TriggerFailedMessage == <<"KB ingestion trigger failed">>

\* hashlib.sha256(...).hexdigest(): collision-free on the inputs modelled
Sha256Hex(s) == <<"sha256">> \o s

\* mutant: the key and the length rendered without the separator
ClientTokenInputNoSeparator(source_key, text) == source_key \o Decimal(Len(text))

\* mutant: a token drawn anew for every invocation
ClientTokenInputPerInvocation(source_key, text) ==
    source_key \o <<":">> \o Decimal(invocations)

\* f"{source_key}:{len(text)}"
ClientTokenInput(source_key, text) == source_key \o <<":">> \o Decimal(Len(text))

\* the ingestionJobId the KB service answers for a client token
IngestionJobIdFor(token) == <<"kbjob">> \o token

\* mutant: `if error is not None`, true of every string
FinalizeStatusErrorNotNone(error) == "FAILED"

\* status = "FAILED" if error else "FINISHED"
FinalizeStatus(error) == IF error # <<>> THEN "FAILED" ELSE "FINISHED"

\* mutant: the KB trigger not guarded by the status
ShouldTriggerKbAlways(status) == TRUE

\* if status == "FINISHED":
ShouldTriggerKb(status) == status = "FINISHED"

\* mutant: a trigger failure also marks the job FAILED
PersistTriggerFailureMarksFailed(table, job_id) ==
    [table EXCEPT ![job_id].status = "FAILED",
                  ![job_id].kbIngestionError = TriggerFailedMessage]

\* the metadata write after a start_ingestion_job call that raised
PersistTriggerFailure(table, job_id) ==
    _persist_kb_ingestion_result(table, job_id, NoAttr, TriggerFailedMessage)

\* mutant: start_ingestion_job called outside the try
TriggerKbUncaught(table, e, job_id, source_key, text, kbRaises) ==
    LET ids == _kb_ingestion_env_ids(e)
        client_token == Sha256Hex(ClientTokenInput(source_key, text))
        call == [ jobId |-> job_id, knowledgeBaseId |-> ids[1], dataSourceId |-> ids[2],
                  sourceKey |-> source_key, textLength |-> Len(text),
                  clientToken |-> client_token ]
    IN IF ids[1] = <<>> \/ ids[2] = <<>>
       THEN [ table |-> _persist_kb_ingestion_result(table, job_id, NoAttr, MissingKbConfigMessage),
              calls |-> {}, raised |-> FALSE ]
       ELSE IF kbRaises
       THEN [ table |-> table, calls |-> {call}, raised |-> TRUE ]
       ELSE [ table |-> _persist_kb_ingestion_result(table, job_id,
                                                     IngestionJobIdFor(client_token), NoAttr),
              calls |-> {call}, raised |-> FALSE ]

\* the body of `if status == "FINISHED":`, kbRaises telling whether
\* start_ingestion_job raises
TriggerKb(table, e, job_id, source_key, text, kbRaises) ==
    LET ids == _kb_ingestion_env_ids(e)
        client_token == Sha256Hex(ClientTokenInput(source_key, text))
        call == [ jobId |-> job_id, knowledgeBaseId |-> ids[1], dataSourceId |-> ids[2],
                  sourceKey |-> source_key, textLength |-> Len(text),
                  clientToken |-> client_token ]
    IN IF ids[1] = <<>> \/ ids[2] = <<>>
       THEN [ table |-> _persist_kb_ingestion_result(table, job_id, NoAttr, MissingKbConfigMessage),
              calls |-> {}, raised |-> FALSE ]
       ELSE IF kbRaises
       THEN [ table |-> PersistTriggerFailure(table, job_id),
              calls |-> {call}, raised |-> FALSE ]
       ELSE [ table |-> _persist_kb_ingestion_result(table, job_id,
                                                     IngestionJobIdFor(client_token), NoAttr),
              calls |-> {call}, raised |-> FALSE ]

NoResult == [ jobId |-> <<>>, status |-> "NONE", textLength |-> 0,
              usedTextract |-> FALSE, error |-> <<>> ]

\* mutant: the KB trigger and its patch come before the put of the status
finalize_handlerPatchFirst(payload, e, table, kbRaises) ==
    LET job_id == Strip(payload.jobId)
        doc_id == Strip(payload.docId)
        course_id == Strip(payload.courseId)
        source_key == Strip(payload.key)
        error == Strip(payload.error)
        text == payload.text
        used_textract == payload.usedTextract
        status == FinalizeStatus(error)
        kb == TriggerKb(table, e, job_id, source_key, text, kbRaises)
        put == _persist_status(IF ShouldTriggerKb(status) THEN kb.table ELSE table,
                               job_id, doc_id, course_id, source_key,
                               status, text, used_textract, error)
        raising(kind) == [ outcome |-> kind, table |-> table, wrote |-> FALSE,
                           written |-> "NONE", calls |-> {}, result |-> NoResult ]
        result == [ jobId |-> job_id, status |-> status, textLength |-> Len(text),
                    usedTextract |-> used_textract, error |-> error ]
    IN IF <<>> \in {job_id, doc_id, course_id, source_key}
       THEN raising("ValueError")
       ELSE IF Strip(e.DOCS_TABLE) = <<>>
       THEN raising("RuntimeError")
       ELSE [ outcome |-> "returned", table |-> put, wrote |-> TRUE, written |-> status,
              calls |-> IF ShouldTriggerKb(status) THEN kb.calls ELSE {},
              result |-> result ]

\* finalize_handler(event): what it returns or raises, the table after it,
\* the row its put_item wrote and the KB calls it made.
finalize_handler(payload, e, table, kbRaises) ==
    LET job_id == Strip(payload.jobId)
        doc_id == Strip(payload.docId)
        course_id == Strip(payload.courseId)
        source_key == Strip(payload.key)
        error == Strip(payload.error)
        text == payload.text
        used_textract == payload.usedTextract
        status == FinalizeStatus(error)
        put == _persist_status(table, job_id, doc_id, course_id, source_key,
                               status, text, used_textract, error)
        kb == TriggerKb(put, e, job_id, source_key, text, kbRaises)
        raising(kind) == [ outcome |-> kind, table |-> table, wrote |-> FALSE,
                           written |-> "NONE", calls |-> {}, result |-> NoResult ]
        result == [ jobId |-> job_id, status |-> status, textLength |-> Len(text),
                    usedTextract |-> used_textract, error |-> error ]
    IN IF <<>> \in {job_id, doc_id, course_id, source_key}
       THEN raising("ValueError")
       ELSE IF Strip(e.DOCS_TABLE) = <<>>
       THEN raising("RuntimeError")
       ELSE IF ~ShouldTriggerKb(status)
       THEN [ outcome |-> "returned", table |-> put, wrote |-> TRUE,
              written |-> status, calls |-> {}, result |-> result ]
       ELSE IF kb.raised
       THEN [ outcome |-> "Exception", table |-> kb.table, wrote |-> TRUE,
              written |-> status, calls |-> kb.calls, result |-> NoResult ]
       ELSE [ outcome |-> "returned", table |-> kb.table, wrote |-> TRUE,
              written |-> status, calls |-> kb.calls, result |-> result ]

----------------------------------------------------------------------------
(* extract, start_textract and poll_textract handlers *)

\* str.lower() on the letters the keys use
Lower(c) == CASE c = "D" -> "d" [] c = "P" -> "p" [] c = "F" -> "f" [] OTHER -> c
LowerStr(s) == [i \in 1..Len(s) |-> Lower(s[i])]

_is_pptx_key(key) == EndsWith(LowerStr(key), <<".", "p", "p", "t", "x">>)
_is_docx_key(key) == EndsWith(LowerStr(key), <<".", "d", "o", "c", "x">>)
_is_doc_key(key) == EndsWith(LowerStr(key), <<".", "d", "o", "c">>)

\* key.rpartition(".")[0]
RECURSIVE Stem(_)
Stem(key) ==
    IF key = <<>> THEN <<>>
    ELSE IF key[Len(key)] = "." THEN SubSeq(key, 1, Len(key) - 1)
    ELSE Stem(SubSeq(key, 1, Len(key) - 1))

ConvertedSuffix == <<".", "c", "o", "n", "v", "e", "r", "t", "e", "d", ".", "p", "d", "f">>

_converted_pdf_key(key) ==
    IF Stem(key) # <<>> THEN Stem(key) \o ConvertedSuffix ELSE key \o ConvertedSuffix

\* _extract_text_with_pymupdf: a non-PDF key is decoded as it is, the text
\* of a PDF is the pages' text joined and stripped.
_extract_text_with_pymupdf(text, key) ==
    IF ~EndsWith(LowerStr(key), <<".", "p", "d", "f">>) THEN text ELSE Strip(text)

\* What the object store and the converter answer for one object.
S3Objects ==
    { [exists |-> ex, oversize |-> ov, converts |-> cv, text |-> t] :
        ex \in BOOLEAN, ov \in BOOLEAN, cv \in BOOLEAN, t \in ExtractedTexts }

Raised(kind, payload) == [raised |-> kind, payload |-> payload]
Returned(payload) == [raised |-> "no", payload |-> payload]

extract_handler(payload, obj) ==
    LET bucket == Strip(payload.bucket)
        key == Strip(payload.key)
        office == _is_pptx_key(key) \/ _is_docx_key(key) \/ _is_doc_key(key)
        extraction_key == IF office THEN _converted_pdf_key(key) ELSE key
        text == _extract_text_with_pymupdf(obj.text, extraction_key)
    IN IF bucket = <<>> \/ key = <<>> THEN Raised("ValueError", payload)
       ELSE IF ~obj.exists THEN Raised("ClientError", payload)
       ELSE IF office /\ obj.oversize THEN Raised("ValueError", payload)
       ELSE IF office /\ ~obj.converts THEN Raised("RuntimeError", payload)
       ELSE Returned([payload EXCEPT
                !.text = text,
                !.textLength = Len(text),
                !.usedTextract = FALSE,
                !.needsTextract = Len(Strip(text)) < payload.threshold,
                !.textractKey = extraction_key])

TextractJobIdValue == <<"t">>

start_textract_handler(payload, startRaises) ==
    LET bucket == Strip(payload.bucket)
        key == Strip(IF payload.textractKey # <<>> THEN payload.textractKey ELSE payload.key)
    IN IF bucket = <<>> \/ key = <<>> THEN Raised("ValueError", payload)
       ELSE IF startRaises THEN Raised("ClientError", payload)
       ELSE Returned([payload EXCEPT !.usedTextract = TRUE,
                                     !.textractJobId = TextractJobIdValue])

\* the LINE texts of one page of blocks
RECURSIVE LinesOf(_)
LinesOf(blocks) ==
    IF blocks = <<>> THEN <<>>
    ELSE (IF Head(blocks).BlockType = "LINE" THEN <<Head(blocks).Text>> ELSE <<>>)
         \o LinesOf(Tail(blocks))

\* the lines of all pages, following NextToken
RECURSIVE AllLines(_)
AllLines(pages) ==
    IF pages = <<>> THEN <<>> ELSE LinesOf(Head(pages)) \o AllLines(Tail(pages))

TextractErrorMessage(status) == <<"textract job ended with status ", status>>

\* What get_document_text_detection can answer.
TextractResponses ==
    { [raises |-> TRUE, JobStatus |-> "IN_PROGRESS", pages |-> <<>>],
      [raises |-> FALSE, JobStatus |-> "IN_PROGRESS", pages |-> <<>>],
      [raises |-> FALSE, JobStatus |-> "FAILED", pages |-> <<>>],
      [raises |-> FALSE, JobStatus |-> "SUCCEEDED", pages |-> << <<>> >>],
      [raises |-> FALSE, JobStatus |-> "SUCCEEDED",
       pages |-> << << [BlockType |-> "LINE", Text |-> <<"o">>],
                       [BlockType |-> "WORD", Text |-> <<"o">>] >>,
                    << [BlockType |-> "LINE", Text |-> <<"k", " ">>] >> >>] }

poll_textract_handler(payload, response) ==
    LET job_id == Strip(payload.textractJobId)
        status == response.JobStatus
        text == Strip(JoinLines(AllLines(response.pages)))
    IN IF job_id = <<>> THEN Raised("ValueError", payload)
       ELSE IF response.raises THEN Raised("ClientError", payload)
       ELSE IF status = "IN_PROGRESS"
       THEN Returned([payload EXCEPT !.textractStatus = status, !.done = FALSE])
       ELSE IF status # "SUCCEEDED"
       THEN Returned([payload EXCEPT !.textractStatus = status, !.done = TRUE,
                                     !.error = TextractErrorMessage(status)])
       ELSE Returned([payload EXCEPT !.text = text, !.textLength = Len(text),
                                     !.textractStatus = "SUCCEEDED", !.done = TRUE])

----------------------------------------------------------------------------
(* POST /docs/ingest and the DocsIngestStateMachine *)

EmptyPayload ==
    [ jobId |-> <<>>, docId |-> <<>>, courseId |-> <<>>, bucket |-> <<>>, key |-> <<>>,
      threshold |-> ThresholdDefault, text |-> <<>>, textLength |-> 0,
      usedTextract |-> FALSE, needsTextract |-> FALSE, textractKey |-> <<>>,
      textractJobId |-> <<>>, textractStatus |-> "", done |-> FALSE, error |-> <<>> ]

IdleExecution == [pc |-> "none", payload |-> EmptyPayload, polls |-> 0, runs |-> 0, trace |-> <<>>]

NoFinalize == [ jobId |-> <<>>, outcome |-> "none", wrote |-> FALSE, written |-> "NONE",
                rows |-> {}, calls |-> {}, result |-> NoResult, kbConfigured |-> FALSE,
                kbRaises |-> FALSE, valid |-> FALSE, payloadError |-> <<>>,
                payload |-> EmptyPayload, retried |-> FALSE ]

\* the record kept of one finalize invocation
FinalizeEntry(payload, e, r, kbRaises) ==
    LET ids == _kb_ingestion_env_ids(e)
        job_id == Strip(payload.jobId)
    IN [ jobId |-> job_id, outcome |-> r.outcome, wrote |-> r.wrote, written |-> r.written,
         rows |-> IF r.wrote THEN {r.table[job_id]} ELSE {},
         calls |-> r.calls, result |-> r.result,
         kbConfigured |-> ids[1] # <<>> /\ ids[2] # <<>>,
         kbRaises |-> kbRaises,
         payloadError |-> payload.error,
         payload |-> payload,
         \* the invocation repeats the one before it, which had returned
         retried |-> lastFinalize.outcome = "returned" /\ lastFinalize.payload = payload,
         valid |-> /\ <<>> \notin {job_id, Strip(payload.docId), Strip(payload.courseId),
                                    Strip(payload.key)}
                   /\ Strip(e.DOCS_TABLE) # <<>> ]

\* the statuses the rows have held, after a write that leaves the table as `table`
HistoryAfter(table) ==
    [ j \in JobIds |->
        IF j \notin DOMAIN table THEN statusHistory[j]
        ELSE IF statusHistory[j] # <<>>
                /\ statusHistory[j][Len(statusHistory[j])] = table[j].status
        THEN statusHistory[j]
        ELSE Append(statusHistory[j], table[j].status) ]

\* Choice IngestNeedsTextract
IngestNeedsTextract(payload) ==
    IF payload.needsTextract = TRUE THEN "start_textract" ELSE "finalize"

\* mutant: the choice does not look at $.done
IngestPollDoneIgnored(payload) == "finalize"

\* Choice IngestPollDone
IngestPollDone(payload) ==
    IF payload.done = TRUE THEN "finalize" ELSE "poll_wait"

Ended == {"not_started", "succeeded", "failed", "timed_out"}

\* _start_ingest_job: put the RUNNING row, then start the execution
StartIngestJob(key, startRaises) ==
    /\ nextJob <= MaxJobs
    /\ Strip(env.UPLOADS_BUCKET) # <<>>
    /\ Strip(env.DOCS_TABLE) # <<>>
    /\ LET job_id == JobIdOf(nextJob)
           table == PutItem(docs, job_id,
                        Row(job_id, DocIdValue, CourseIdValue, key, "RUNNING", 0, FALSE, <<>>))
           execution_input == [EmptyPayload EXCEPT
                                 !.jobId = job_id, !.docId = DocIdValue,
                                 !.courseId = CourseIdValue,
                                 !.bucket = Strip(env.UPLOADS_BUCKET), !.key = key,
                                 !.threshold = ThresholdDefault]
       IN /\ docs' = table
          /\ statusHistory' = HistoryAfter(table)
          /\ exec' = [exec EXCEPT ![job_id] =
                        IF startRaises THEN [IdleExecution EXCEPT !.pc = "not_started"]
                        ELSE [IdleExecution EXCEPT !.pc = "extract",
                                                   !.payload = execution_input]]
    /\ nextJob' = nextJob + 1
    /\ UNCHANGED <<kbCalls, lastFinalize, invocations, env, nonIngestVars>>

\* a task whose handler raised fails the execution: the definition has no Catch
AfterTask(j, r, next, event) ==
    [exec EXCEPT ![j] =
        IF r.raised # "no" THEN [@ EXCEPT !.pc = "failed"]
        ELSE [@ EXCEPT !.pc = next, !.payload = r.payload,
                       !.trace = Append(@, event)]]

IngestExtractStep(j, obj) ==
    /\ exec[j].pc = "extract"
    /\ LET r == extract_handler(exec[j].payload, obj)
       IN exec' = AfterTask(j, r, IngestNeedsTextract(r.payload), "extract")
    /\ UNCHANGED <<docs, nextJob, kbCalls, lastFinalize, statusHistory, invocations, env, nonIngestVars>>

IngestStartTextractStep(j, startRaises) ==
    /\ exec[j].pc = "start_textract"
    /\ LET r == start_textract_handler(exec[j].payload, startRaises)
       IN exec' = AfterTask(j, r, "initial_wait", "start_ocr")
    /\ UNCHANGED <<docs, nextJob, kbCalls, lastFinalize, statusHistory, invocations, env, nonIngestVars>>

\* Wait IngestInitialWaitForTextract and Wait IngestPollWaitForTextract
IngestWait(j) ==
    /\ exec[j].pc \in {"initial_wait", "poll_wait"}
    /\ exec' = [exec EXCEPT ![j].pc = "poll"]
    /\ UNCHANGED <<docs, nextJob, kbCalls, lastFinalize, statusHistory, invocations, env, nonIngestVars>>

\* IngestPollTextractEntryStep and IngestPollTextractStep
IngestPollTextractStep(j, response) ==
    /\ exec[j].pc = "poll"
    /\ response.JobStatus = "IN_PROGRESS" /\ ~response.raises => exec[j].polls < MaxPolls
    /\ LET r == poll_textract_handler(exec[j].payload, response)
           after == AfterTask(j, r, IngestPollDone(r.payload),
                              IF r.payload.done THEN "poll_done" ELSE "poll_pending")
       IN exec' = [after EXCEPT ![j].polls = @ + 1]
    /\ UNCHANGED <<docs, nextJob, kbCalls, lastFinalize, statusHistory, invocations, env, nonIngestVars>>

\* IngestFinalizeStep; `lost` is a Lambda service exception reported after
\* the handler ran, which LambdaInvoke retries.
IngestFinalizeStep(j, kbRaises, lost) ==
    /\ exec[j].pc = "finalize"
    /\ lost => exec[j].runs < MaxFinalizeRetries
    /\ LET r == finalize_handler(exec[j].payload, env, docs, kbRaises)
       IN /\ docs' = r.table
          /\ statusHistory' = HistoryAfter(r.table)
          /\ kbCalls' = kbCalls \cup r.calls
          /\ lastFinalize' = FinalizeEntry(exec[j].payload, env, r, kbRaises)
          /\ exec' = [exec EXCEPT
                        ![j].pc = IF r.outcome # "returned" THEN "failed"
                                  ELSE IF lost THEN "finalize" ELSE "succeeded",
                        ![j].runs = @ + 1,
                        ![j].trace = Append(@, "finalize")]
    /\ UNCHANGED <<nextJob, invocations, env, nonIngestVars>>

\* timeout=Duration.minutes(20): the execution is stopped while it waits
IngestTimeout(j) ==
    /\ exec[j].pc \in {"initial_wait", "poll_wait"}
    /\ exec' = [exec EXCEPT ![j].pc = "timed_out"]
    /\ UNCHANGED <<docs, nextJob, kbCalls, lastFinalize, statusHistory, invocations, env, nonIngestVars>>

KbIdValue == <<"i", "d">>

\* the environment api_stack.py gives the Lambdas; the KB ids come from the
\* deployment context and may be empty
IngestEnvs ==
    { [ UPLOADS_BUCKET |-> BucketValue, DOCS_TABLE |-> <<"t">>,
        KNOWLEDGE_BASE_ID |-> id, KNOWLEDGE_BASE_DATA_SOURCE_ID |-> id,
        DATA_SOURCE_ID |-> <<>> ] : id \in {<<>>, KbIdValue} }


----------------------------------------------------------------------------
(* The finalize handler invoked on its own, as the Lambda entry point it is *)

FinalizeJobIds == {<<>>, JobIdOf(1), <<" ">> \o JobIdOf(MaxJobs + 1)}
FinalizeKeys == {<<>>, <<"a">>, <<" ", "a", "1">>}
FinalizeErrors == {<<>>, <<" ">>, <<" ", "e">>}
FinalizeTexts == {Rep("x", 2), Rep("x", 12)}

FinalizePayloads ==
    { [EmptyPayload EXCEPT !.jobId = j, !.docId = DocIdValue, !.courseId = CourseIdValue,
                           !.bucket = BucketValue, !.key = k, !.error = er, !.text = t,
                           !.textLength = Len(t)] :
        j \in FinalizeJobIds, k \in FinalizeKeys, er \in FinalizeErrors, t \in FinalizeTexts }

FinalizeEnv(table, kb, ds, alias) ==
    [ UPLOADS_BUCKET |-> BucketValue, DOCS_TABLE |-> table, KNOWLEDGE_BASE_ID |-> kb,
      KNOWLEDGE_BASE_DATA_SOURCE_ID |-> ds, DATA_SOURCE_ID |-> alias ]

FinalizeEnvs ==
    { FinalizeEnv(<<"t">>, KbIdValue, KbIdValue, <<>>),
      FinalizeEnv(<<"t">>, KbIdValue, <<" ">>, KbIdValue),
      FinalizeEnv(<<"t">>, <<" ">>, KbIdValue, <<>>),
      FinalizeEnv(<<"t">>, KbIdValue, <<>>, <<>>),
      FinalizeEnv(<<>>, KbIdValue, KbIdValue, <<>>) }

InvokeFinalize(payload, kbRaises) ==
    /\ invocations < MaxInvocations
    /\ invocations' = invocations + 1
    /\ LET r == finalize_handler(payload, env, docs, kbRaises)
       IN /\ docs' = r.table
          /\ kbCalls' = kbCalls \cup r.calls
          /\ lastFinalize' = FinalizeEntry(payload, env, r, kbRaises)
    /\ UNCHANGED <<exec, nextJob, statusHistory, env, nonIngestVars>>

----------------------------------------------------------------------------
(* FSRS scheduler (study/fsrs.py).  Times are whole hours; stability and   *)
(* difficulty are kept in hundredths where the code rounds to 6 decimals.  *)

_DEFAULT_DIFFICULTY == 500
_MIN_STABILITY == 15
_MAX_DIFFICULTY == 1000
_MIN_DIFFICULTY == 100

_FIRST_INTERVAL_HOURS == <<0, 1, 24, 72>>
_FIRST_STABILITY == <<30, 80, 250, 400>>
_FIRST_DIFFICULTY_DELTA == <<120, 40, -30, -80>>
_REVIEW_DIFFICULTY_DELTA == <<100, 30, -15, -45>>
_REVIEW_INTERVAL_FACTOR == <<0, 80, 100, 135>>
_RELEARN_INTERVAL_HOURS == 4

Max2(a, b) == IF a >= b THEN a ELSE b
Min2(a, b) == IF a <= b THEN a ELSE b

\* _clamp without the upper limit
_clampMinimumOnly(value, minimum, maximum) == Max2(minimum, value)

\* _clamp
_clamp(value, minimum, maximum) == Max2(minimum, Min2(maximum, value))

\* a card without fsrsState
NoFsrs == [ present |-> FALSE, dueAt |-> 0, stability |-> 0, difficulty |-> 0,
            reps |-> 0, lapses |-> 0, lastReviewedAt |-> 0 ]

FSRSState(due_at, stability, difficulty, reps, lapses, last_reviewed_at) ==
    [ present |-> TRUE, dueAt |-> due_at, stability |-> stability,
      difficulty |-> difficulty, reps |-> reps, lapses |-> lapses,
      lastReviewedAt |-> last_reviewed_at ]

\* parse_rfc3339_utc accepts only the form ...Z
StrictRfc3339(ts) == ts.form = "utc_z"

_first_review(now, rating) ==
    FSRSState(now + _FIRST_INTERVAL_HOURS[rating],
              _FIRST_STABILITY[rating],
              _clamp(_DEFAULT_DIFFICULTY + _FIRST_DIFFICULTY_DELTA[rating],
                     _MIN_DIFFICULTY, _MAX_DIFFICULTY),
              1,
              IF rating = 1 THEN 1 ELSE 0,
              now)

\* retention_gap = max(0, 1 - retrievability), in hundredths
RetentionGap(stability, elapsed_hours) ==
    LET s == Max2(stability, _MIN_STABILITY)
    IN (10000 * elapsed_hours) \div (24 * s + 100 * elapsed_hours)

\* mutant: a lapse resets the repetition count
NextRepsResetOnLapse(reps, rating) == IF rating = 1 THEN 0 ELSE reps + 1

\* reps=current.reps + 1
NextReps(reps, rating) == reps + 1

\* the follow-up branch of schedule_review, after FSRSState.from_mapping
FollowUpReview(current, rating, now) ==
    LET elapsed == Max2(0, now - current.lastReviewedAt)
        gap == RetentionGap(current.stability, elapsed)
        difficulty == _clamp(current.difficulty, _MIN_DIFFICULTY, _MAX_DIFFICULTY)
        gain == 100 + ((25 + 8 * rating) * (100 + gap) * (1100 - difficulty)) \div 100000
        next_stability ==
            IF rating = 1 THEN Max2(_MIN_STABILITY, (current.stability * 55) \div 100)
            ELSE Max2(_MIN_STABILITY, (current.stability * gain) \div 100)
        interval_hours ==
            IF rating = 1 THEN _RELEARN_INTERVAL_HOURS
            ELSE (next_stability * _REVIEW_INTERVAL_FACTOR[rating] * 24) \div 10000
        difficulty_delta ==
            IF rating = 1 THEN _REVIEW_DIFFICULTY_DELTA[rating]
            ELSE (_REVIEW_DIFFICULTY_DELTA[rating] * (200 + gap)) \div 200
    IN FSRSState(now + interval_hours,
                 next_stability,
                 _clamp(difficulty + difficulty_delta, _MIN_DIFFICULTY, _MAX_DIFFICULTY),
                 NextReps(current.reps, rating),
                 IF rating = 1 THEN current.lapses + 1 ELSE current.lapses,
                 now)

\* schedule_review(prior_state, rating, now): the state it returns, or the
\* ValueError it raises
schedule_review(prior_state, rating, now) ==
    IF rating \notin 1..4 THEN [raised |-> TRUE, state |-> NoFsrs]
    ELSE IF ~StrictRfc3339(now) THEN [raised |-> TRUE, state |-> NoFsrs]
    ELSE IF ~prior_state.present
    THEN [raised |-> FALSE, state |-> _first_review(now.t, rating)]
    ELSE IF prior_state.reps < 0 \/ prior_state.lapses < 0 \/ prior_state.stability <= 0
    THEN [raised |-> TRUE, state |-> NoFsrs]
    ELSE [raised |-> FALSE, state |-> FollowUpReview(prior_state, rating, now.t)]

----------------------------------------------------------------------------
(* Cards table, POST /study/review and the persisting of generated cards *)

CardIds == {"k1", "k2"}
CourseIds == {"c1", "c2"}
ReviewRatings == {0, 1, 3, 5}
ReviewTimes ==
    { [form |-> "utc_z", t |-> 0], [form |-> "utc_z", t |-> 30],
      [form |-> "offset", t |-> 30], [form |-> "invalid", t |-> 0] }
GenerationTimes == {0, 30}

ReviewPayloads ==
    { [cardId |-> k, courseId |-> c, rating |-> r, reviewedAt |-> ts] :
        k \in CardIds, c \in CourseIds, r \in ReviewRatings, ts \in ReviewTimes }

\* an attribute that is not on the row
NoNumber == -1

\* who computed the review fields of a row: one generation or one review
GeneratedBy(n) == <<"generate", n>>
ReviewedBy(r) == <<"review", r>>

\* the Item _persist_generated_cards puts: no fsrsState, no reviewCount
GeneratedCard(card_id, course_id, now, n) ==
    [ cardId |-> card_id, courseId |-> course_id, dueAt |-> now,
      lastReviewedAt |-> NoNumber, fsrsState |-> NoFsrs, reviewCount |-> NoNumber,
      who |-> [dueAt |-> GeneratedBy(n), fsrsState |-> GeneratedBy(n),
               reviewCount |-> GeneratedBy(n)] ]

\* mutant: the stored attribute is never found, the default is used
_safe_intDefaultOnly(value) == 0

\* _safe_int(value, 0) of a row attribute
_safe_int(value) == IF value = NoNumber THEN 0 ELSE value

\* _load_prior_fsrs_state
_load_prior_fsrs_state(card_row) == card_row.fsrsState

_fsrs_rating_from_review_rating(rating) ==
    IF rating <= 1 THEN 1
    ELSE IF rating = 2 THEN 2
    ELSE IF rating = 3 THEN 3
    ELSE 4

\* _validate_review_payload: the ids are non-empty strings here; rating must
\* be 1..5 and reviewedAt must be accepted by datetime.fromisoformat
_validate_review_payload(payload) ==
    /\ payload.rating >= 1 /\ payload.rating <= 5
    /\ payload.reviewedAt.form \in {"utc_z", "offset"}

\* mutant: the review leaves the dueAt of the row as it was
ReviewedRowKeepsDueAt(row, updated_state, r) ==
    [row EXCEPT
        !.lastReviewedAt = updated_state.lastReviewedAt,
        !.fsrsState = updated_state,
        !.reviewCount = _safe_int(row.reviewCount) + 1,
        !.who = [dueAt |-> ReviewedBy(r), fsrsState |-> ReviewedBy(r),
                 reviewCount |-> ReviewedBy(r)]]

\* the row _update_card_review_state builds from the row it read
ReviewedRow(row, updated_state, r) ==
    [row EXCEPT
        !.dueAt = updated_state.dueAt,
        !.lastReviewedAt = updated_state.lastReviewedAt,
        !.fsrsState = updated_state,
        !.reviewCount = _safe_int(row.reviewCount) + 1,
        !.who = [dueAt |-> ReviewedBy(r), fsrsState |-> ReviewedBy(r),
                 reviewCount |-> ReviewedBy(r)]]

\* mutant: the write-back as an update that sets fsrsState only
PutCardFsrsStateOnly(table, key, item) ==
    IF key \in DOMAIN table
    THEN [table EXCEPT ![key].fsrsState = item.fsrsState,
                       ![key].who.fsrsState = item.who.fsrsState]
    ELSE PutItem(table, key, item)

\* table.put_item(Item=row) on the cards table
PutCard(table, key, item) == PutItem(table, key, item)

IdleReview ==
    [ pc |-> "idle", payload |-> [cardId |-> "k1", courseId |-> "c1", rating |-> 1,
                                  reviewedAt |-> [form |-> "utc_z", t |-> 0]],
      row |-> GeneratedCard("k1", "c1", 0, 0), response |-> "none", applied |-> FALSE ]

\* a request that is answered; one that was applied keeps the reviewCount
\* of the row it read (history)
Answered(response, applied) == [IdleReview EXCEPT !.pc = "done", !.response = response,
                                                  !.applied = applied]

\* POST /study/review up to the get_item of _update_card_review_state
ReviewRead(payload) ==
    /\ nextReview <= MaxReviews
    /\ nextReview' = nextReview + 1
    /\ reviews' = [reviews EXCEPT ![nextReview] =
          IF ~_validate_review_payload(payload) THEN Answered("400", FALSE)
          ELSE IF payload.cardId \notin DOMAIN cards THEN Answered("200", FALSE)
          ELSE IF cards[payload.cardId].courseId # payload.courseId
          THEN Answered("200", FALSE)
          ELSE [IdleReview EXCEPT !.pc = "read", !.payload = payload,
                                  !.row = cards[payload.cardId]]]
    /\ UNCHANGED <<cards, generations, nonStudyVars>>

\* the rest of _update_card_review_state: schedule_review and put_item
ReviewWrite(r) ==
    /\ reviews[r].pc = "read"
    /\ LET payload == reviews[r].payload
           row == reviews[r].row
           s == schedule_review(_load_prior_fsrs_state(row),
                                _fsrs_rating_from_review_rating(payload.rating),
                                payload.reviewedAt)
       IN IF s.raised
          THEN /\ reviews' = [reviews EXCEPT ![r] = Answered("unhandled exception", FALSE)]
               /\ cards' = cards
          ELSE /\ cards' = PutCard(cards, payload.cardId, ReviewedRow(row, s.state, r))
               /\ reviews' = [reviews EXCEPT ![r] =
                     [Answered("200", TRUE) EXCEPT
                         !.row.reviewCount = row.reviewCount]]
    /\ UNCHANGED <<nextReview, generations, nonStudyVars>>

\* one put_item of _persist_generated_cards
PersistGeneratedCard(card_id, course_id, now) ==
    /\ generations < MaxGenerations
    /\ generations' = generations + 1
    /\ cards' = PutCard(cards, card_id, GeneratedCard(card_id, course_id, now, generations + 1))
    /\ UNCHANGED <<reviews, nextReview, nonStudyVars>>

StudyIdle ==
    /\ cards = << >>
    /\ reviews = [r \in 1..MaxReviews |-> IdleReview]
    /\ nextReview = 1
    /\ generations = 0

----------------------------------------------------------------------------
(* Canvas sync (backend/runtime.py): POST /canvas/sync for one user and   *)
(* the scheduled sync over every stored connection.  One request runs at  *)
(* a time; syncLog records the writes of the current request in order.    *)

Users == {"u1", "u2"}

\* the rows _list_canvas_connections returns, in scan order
StoredConnections == <<"u1", "u2">>

\* the courses fetch_active_courses returns for a user
UserCourses(user) == IF user = "u1" THEN <<"c1", "c2">> ELSE <<"c3">>

\* what the LMS answers for the assignments of one course: "denied" is a
\* 403, "api_error" any other failure _request_json turns into
\* CanvasApiError, "malformed" a row whose due_at datetime.fromisoformat
\* rejects (ValueError out of _to_rfc3339_utc), "invalid_item" a payload
\* CanvasItem.from_api_dict rejects
AssignmentOutcomes == {"ok", "denied", "api_error", "malformed", "invalid_item"}

\* what the LMS answers for the files of one course: an error, or the file
\* payloads, each named by what happens to it: mirrored ("ok"), skipped by
\* the size or type checks ("skip"), failing before put_object ("fail") or
\* failing in batch.put_item after put_object ("fail_after_put")
FileLists ==
    { <<>>, <<"ok">>, <<"skip", "ok">>, <<"fail", "ok">>, <<"fail_after_put">>,
      <<"ok", "ok", "ok">> }

\* what fetch_course_files does for one course
FilesOutcomes ==
    { [kind |-> k, files |-> <<>>] : k \in {"denied", "api_error", "malformed"} }
        \cup { [kind |-> "ok", files |-> f] : f \in FileLists }

_CANVAS_MAX_FILES_PER_COURSE_DEFAULT == 5
_CANVAS_MAX_FILES_TOTAL_DEFAULT == 20

\* _int_env(name, default_value) of a variable holding a number, 0 when unset
_int_env(raw, default_value) == IF raw > 0 THEN raw ELSE default_value

ApiEnv(bucket, kb_id, per_course, total) ==
    [ UPLOADS_BUCKET |-> bucket, KNOWLEDGE_BASE_ID |-> kb_id,
      KNOWLEDGE_BASE_DATA_SOURCE_ID |-> kb_id,
      CANVAS_MAX_FILES_PER_COURSE |-> per_course, CANVAS_MAX_FILES_TOTAL |-> total ]

ApiEnvs ==
    { ApiEnv(BucketValue, KbIdValue, 2, 3), ApiEnv(BucketValue, <<>>, 0, 0),
      ApiEnv(<<" ">>, KbIdValue, 2, 3) }

Event(kind, user, course) == [kind |-> kind, user |-> user, course |-> course]

NoResponse ==
    [ status |-> 0, materialsMirrored |-> 0, failedCourseIds |-> {},
      knowledgeBaseIngestionStarted |-> FALSE, knowledgeBaseIngestionError |-> FALSE,
      usersSucceeded |-> 0, usersFailed |-> 0, userErrors |-> {},
      failedCourseIdsByUser |-> << >> ]

ErrorResponse(status) == [NoResponse EXCEPT !.status = status]

IdleSync ==
    [ mode |-> "none", pc |-> "idle", queue |-> <<>>, user |-> "none",
      courses |-> <<>>, files |-> <<>>, buffer |-> <<>>,
      courses_upserted |-> 0, items_upserted |-> 0,
      materials_upserted |-> 0, materials_mirrored |-> 0,
      failed_assignment_course_ids |-> <<>>, failed_material_course_ids |-> <<>>,
      users_succeeded |-> 0, users_failed |-> 0, materials_mirrored_total |-> 0,
      user_errors |-> {}, failed_course_ids_by_user |-> << >>,
      response |-> NoResponse ]

Range(seq) == { seq[i] : i \in 1..Len(seq) }

\* the loop of _handle_scheduled_canvas_sync moving on to the connection at
\* the head of queue, or past the loop when there is none
ForUser(s, queue) ==
    [s EXCEPT !.queue = queue,
              !.user = IF queue = <<>> THEN "none" ELSE Head(queue),
              !.pc = IF queue = <<>> THEN "finish" ELSE "assignments_fetch",
              !.courses = <<>>, !.files = <<>>, !.buffer = <<>>,
              !.courses_upserted = 0, !.items_upserted = 0,
              !.materials_upserted = 0, !.materials_mirrored = 0,
              !.failed_assignment_course_ids = <<>>,
              !.failed_material_course_ids = <<>>]

\* the except clauses of _handle_canvas_sync
SyncErrorStatus(exc) == IF exc = "CanvasApiError" THEN 502 ELSE 500

\* mutant: an exception in one user ends the loop over the connections
RaiseInSyncAbortsBatch(s, exc) ==
    IF s.mode = "manual"
    THEN [s EXCEPT !.pc = "done", !.buffer = <<>>,
                   !.response = ErrorResponse(SyncErrorStatus(exc))]
    ELSE ForUser([s EXCEPT !.users_failed = @ + 1,
                           !.user_errors = @ \cup {s.user}],
                 <<>>)

\* an exception leaving the two per-user sync functions
RaiseInSync(s, exc) ==
    IF s.mode = "manual"
    THEN [s EXCEPT !.pc = "done", !.buffer = <<>>,
                   !.response = ErrorResponse(SyncErrorStatus(exc))]
    ELSE ForUser([s EXCEPT !.users_failed = @ + 1,
                           !.user_errors = @ \cup {s.user}],
                 Tail(s.queue))

\* mutant: the assignment rows stay in a batch shared with the materials
AssignmentsBatchExitShared(buffer) == [written |-> <<>>, buffer |-> buffer]

\* leaving the batch_writer block of _sync_canvas_assignments_for_user
\* sends what is still buffered
AssignmentsBatchExit(buffer) == [written |-> buffer, buffer |-> <<>>]

\* the number of buffered rows at which batch_writer sends them (25 in
\* boto3; 2 here, so that rows are sent both inside the loops and at the end
\* of the block)
BatchFlushAmount == 2

\* whether the buffer is full once one more row is put
BatchFull(buffer) == Len(buffer) + 1 >= BatchFlushAmount

\* batch.put_item: the row is buffered, and the buffer is sent when full
BatchPut(buffer, row, flush) ==
    IF flush THEN [written |-> Append(buffer, row), buffer |-> <<>>]
    ELSE [written |-> <<>>, buffer |-> Append(buffer, row)]

\* _handle_canvas_sync up to the call of _sync_canvas_assignments_for_user
HandleCanvasSync(user, authenticated) ==
    /\ sync.pc \in {"idle", "done"}
    /\ syncRuns < MaxSyncRuns
    /\ syncRuns' = syncRuns + 1
    /\ syncLog' = <<>>
    /\ sync' =
          IF ~authenticated
          THEN [IdleSync EXCEPT !.mode = "manual", !.pc = "done",
                                !.response = ErrorResponse(401)]
          ELSE IF user \notin Range(StoredConnections)
          THEN [IdleSync EXCEPT !.mode = "manual", !.pc = "done",
                                !.response = ErrorResponse(400)]
          ELSE ForUser([IdleSync EXCEPT !.mode = "manual"], <<user>>)
    /\ UNCHANGED <<apiEnv, nonSyncVars>>

\* _handle_scheduled_canvas_sync up to its loop over the connections
HandleScheduledCanvasSync ==
    /\ sync.pc \in {"idle", "done"}
    /\ syncRuns < MaxSyncRuns
    /\ syncRuns' = syncRuns + 1
    /\ syncLog' = <<>>
    /\ sync' = ForUser([IdleSync EXCEPT !.mode = "scheduled"], StoredConnections)
    /\ UNCHANGED <<apiEnv, nonSyncVars>>

\* a call of fetch_active_courses, fetch_course_assignments or
\* fetch_course_files and how it ended
Fetch(kind, user, course, outcome) ==
    [kind |-> kind, user |-> user, course |-> course, outcome |-> outcome]

\* an exception leaving the per-user sync functions of a user
RaisedFor(user) == Event("raised", user, "none")

\* _sync_canvas_assignments_for_user: fetch_active_courses and the batch
\* of course rows
SyncAssignmentsFetchCourses(outcome) ==
    /\ sync.pc = "assignments_fetch"
    /\ IF outcome = "api_error"
       THEN /\ sync' = RaiseInSync(sync, "CanvasApiError")
            /\ syncLog' = syncLog \o
                  <<Fetch("courses_fetch", sync.user, "none", outcome), RaisedFor(sync.user)>>
       ELSE LET courses == UserCourses(sync.user)
            IN /\ sync' = [sync EXCEPT !.pc = "assignments", !.courses = courses,
                                       !.courses_upserted = Len(courses)]
               /\ syncLog' = Append(syncLog, Fetch("courses_fetch", sync.user, "none", outcome))
                     \o [i \in 1..Len(courses) |->
                            Event("course_row", sync.user, courses[i])]
    /\ UNCHANGED <<syncRuns, apiEnv, nonSyncVars>>

\* mutant: a course the LMS denies is recorded as failed
OnAccessDeniedMarksFailed(s, course) ==
    [s EXCEPT !.courses = Tail(@), !.failed_assignment_course_ids = Append(@, course)]

\* except CanvasAccessDeniedError: ... continue
OnAccessDenied(s, course) == [s EXCEPT !.courses = Tail(@)]

\* one turn of the loop over courses in _sync_canvas_assignments_for_user
SyncAssignmentsCourse(outcome) ==
    /\ sync.pc = "assignments"
    /\ sync.courses # <<>>
    /\ LET course == Head(sync.courses)
           put == BatchPut(sync.buffer, Event("assignment_row", sync.user, course),
                           BatchFull(sync.buffer))
           fetched == Append(syncLog, Fetch("assignments_fetch", sync.user, course, outcome))
       IN CASE outcome = "denied" ->
                 /\ sync' = OnAccessDenied(sync, course)
                 /\ syncLog' = fetched
            [] outcome = "api_error" ->
                 /\ sync' = [sync EXCEPT !.courses = Tail(@),
                                !.failed_assignment_course_ids = Append(@, course)]
                 /\ syncLog' = fetched
            [] outcome = "malformed" ->
                 /\ sync' = RaiseInSync(sync, "ValueError")
                 /\ syncLog' = Append(fetched \o sync.buffer, RaisedFor(sync.user))
            [] outcome = "invalid_item" ->
                 /\ sync' = RaiseInSync(sync, "ModelValidationError")
                 /\ syncLog' = Append(fetched \o sync.buffer, RaisedFor(sync.user))
            [] OTHER ->
                 /\ sync' = [sync EXCEPT !.courses = Tail(@), !.buffer = put.buffer,
                                         !.items_upserted = @ + 1]
                 /\ syncLog' = fetched \o put.written
    /\ UNCHANGED <<syncRuns, apiEnv, nonSyncVars>>

\* the end of _sync_canvas_assignments_for_user
SyncAssignmentsExit ==
    /\ sync.pc = "assignments"
    /\ sync.courses = <<>>
    /\ LET exit == AssignmentsBatchExit(sync.buffer)
       IN /\ sync' = [sync EXCEPT !.pc = "materials_begin", !.buffer = exit.buffer]
          /\ syncLog' = syncLog \o exit.written
    /\ UNCHANGED <<syncRuns, apiEnv, nonSyncVars>>

\* _sync_canvas_materials_for_user up to its loop over courses
SyncMaterialsBegin(outcome) ==
    /\ sync.pc = "materials_begin"
    /\ sync' =
          IF Strip(apiEnv.UPLOADS_BUCKET) = <<>> THEN RaiseInSync(sync, "RuntimeError")
          ELSE IF outcome = "api_error" THEN RaiseInSync(sync, "CanvasApiError")
          ELSE [sync EXCEPT !.pc = "materials", !.courses = UserCourses(sync.user),
                            !.materials_upserted = 0, !.materials_mirrored = 0]
    /\ syncLog' =
          IF Strip(apiEnv.UPLOADS_BUCKET) = <<>> THEN Append(syncLog, RaisedFor(sync.user))
          ELSE IF outcome = "api_error"
          THEN syncLog \o <<Fetch("courses_fetch", sync.user, "none", outcome),
                            RaisedFor(sync.user)>>
          ELSE Append(syncLog, Fetch("courses_fetch", sync.user, "none", outcome))
    /\ UNCHANGED <<syncRuns, apiEnv, nonSyncVars>>

max_files_per_course ==
    _int_env(apiEnv.CANVAS_MAX_FILES_PER_COURSE, _CANVAS_MAX_FILES_PER_COURSE_DEFAULT)

max_files_total ==
    _int_env(apiEnv.CANVAS_MAX_FILES_TOTAL, _CANVAS_MAX_FILES_TOTAL_DEFAULT)

\* file_payloads[:max_files_per_course]
Truncate(file_payloads, n) == SubSeq(file_payloads, 1, Min2(n, Len(file_payloads)))

\* one turn of the loop over courses in _sync_canvas_materials_for_user, up
\* to its loop over the file payloads
SyncMaterialsCourse(outcome) ==
    /\ sync.pc = "materials"
    /\ sync.courses # <<>>
    /\ LET course == Head(sync.courses)
       IN sync' =
            IF sync.materials_upserted >= max_files_total
            THEN [sync EXCEPT !.courses = <<>>]
            ELSE IF outcome.kind = "malformed" THEN RaiseInSync(sync, "ValueError")
            ELSE IF outcome.kind = "denied" THEN OnAccessDenied(sync, course)
            ELSE IF outcome.kind = "api_error"
            THEN [sync EXCEPT !.courses = Tail(@),
                              !.failed_material_course_ids = Append(@, course)]
            ELSE IF Truncate(outcome.files, max_files_per_course) = <<>>
            THEN [sync EXCEPT !.courses = Tail(@)]
            ELSE [sync EXCEPT !.pc = "files",
                              !.files = Truncate(outcome.files, max_files_per_course)]
    /\ LET fetched == Append(syncLog, Fetch("files_fetch", sync.user, Head(sync.courses),
                                            outcome.kind))
       IN syncLog' = IF sync.materials_upserted >= max_files_total THEN syncLog
                     ELSE IF outcome.kind = "malformed"
                     THEN Append(fetched \o sync.buffer, RaisedFor(sync.user))
                     ELSE fetched
    /\ UNCHANGED <<syncRuns, apiEnv, nonSyncVars>>

\* after a file payload: the next one, or the next course
AfterFile(s) ==
    IF Tail(s.files) = <<>>
    THEN [s EXCEPT !.pc = "materials", !.files = <<>>, !.courses = Tail(@)]
    ELSE [s EXCEPT !.files = Tail(@)]

\* failed_course_ids.append(course.id) unless it is in failed_course_set
MarkMaterialCourseFailed(s, course) ==
    IF course \in Range(s.failed_material_course_ids) THEN s
    ELSE [s EXCEPT !.failed_material_course_ids = Append(@, course)]

\* one turn of the loop over the file payloads of one course
SyncMaterialsFile ==
    /\ sync.pc = "files"
    /\ LET course == Head(sync.courses)
           file == Head(sync.files)
           mirror == Event("mirror", sync.user, course)
           put == BatchPut(sync.buffer, Event("material_row", sync.user, course),
                           BatchFull(sync.buffer))
       IN IF sync.materials_upserted >= max_files_total
          THEN /\ sync' = [sync EXCEPT !.pc = "materials", !.files = <<>>,
                                       !.courses = Tail(@)]
               /\ syncLog' = syncLog
          ELSE CASE file = "skip" ->
                      /\ sync' = AfterFile(sync)
                      /\ syncLog' = syncLog
                 [] file = "fail" ->
                      /\ sync' = AfterFile(MarkMaterialCourseFailed(sync, course))
                      /\ syncLog' = syncLog
                 [] file = "fail_after_put" ->
                      /\ sync' = AfterFile(MarkMaterialCourseFailed(sync, course))
                      /\ syncLog' = Append(syncLog, mirror)
                 [] OTHER ->
                      /\ sync' = AfterFile([sync EXCEPT !.buffer = put.buffer,
                                               !.materials_upserted = @ + 1,
                                               !.materials_mirrored = @ + 1])
                      /\ syncLog' = Append(syncLog, mirror) \o put.written
    /\ UNCHANGED <<syncRuns, apiEnv, nonSyncVars>>

\* failed_course_ids: the union of the two lists (its sorting is not modelled)
FailedCourseIds(s) ==
    Range(s.failed_assignment_course_ids) \cup Range(s.failed_material_course_ids)

\* the end of _sync_canvas_materials_for_user and, in the scheduled sync,
\* the tallies of the user
SyncMaterialsExit ==
    /\ sync.pc = "materials"
    /\ sync.courses = <<>>
    /\ syncLog' = syncLog \o sync.buffer
    /\ sync' =
          IF sync.mode = "manual" THEN [sync EXCEPT !.pc = "finish", !.buffer = <<>>]
          ELSE LET s == [sync EXCEPT
                           !.users_succeeded = @ + 1,
                           !.materials_mirrored_total = @ + sync.materials_mirrored,
                           !.failed_course_ids_by_user =
                               IF FailedCourseIds(sync) = {} THEN @
                               ELSE (sync.user :> FailedCourseIds(sync)) @@ @]
               IN ForUser(s, Tail(sync.queue))
    /\ UNCHANGED <<syncRuns, apiEnv, nonSyncVars>>

\* _start_knowledge_base_ingestion: whether start_ingestion_job is called,
\* and what is returned
_start_knowledge_base_ingestion(e, kbRaises) ==
    IF Strip(e.KNOWLEDGE_BASE_ID) = <<>> \/ Strip(e.KNOWLEDGE_BASE_DATA_SOURCE_ID) = <<>>
    THEN [called |-> FALSE, started |-> FALSE, error |-> TRUE]
    ELSE IF kbRaises THEN [called |-> TRUE, started |-> FALSE, error |-> TRUE]
    ELSE [called |-> TRUE, started |-> TRUE, error |-> FALSE]

\* mutant: the scheduled sync looks at the last user's count only
MirroredInRunLastUser(s) == s.materials_mirrored

\* materials_mirrored in _handle_canvas_sync, materials_mirrored_total in
\* _handle_scheduled_canvas_sync
MirroredInRun(s) ==
    IF s.mode = "manual" THEN s.materials_mirrored ELSE s.materials_mirrored_total

\* mutant: the KB is triggered by every sync
KbTriggerDueAlways(mirrored) == TRUE

\* if materials_mirrored > 0
KbTriggerDue(mirrored) == mirrored > 0

\* the rest of both handlers: the KB trigger and the response
SyncFinish(kbRaises) ==
    /\ sync.pc = "finish"
    /\ LET mirrored == MirroredInRun(sync)
           kb == IF KbTriggerDue(mirrored)
                 THEN _start_knowledge_base_ingestion(apiEnv, kbRaises)
                 ELSE [called |-> FALSE, started |-> FALSE, error |-> FALSE]
       IN /\ syncLog' = IF kb.called THEN Append(syncLog, Event("kb_trigger", "none", "none"))
                        ELSE syncLog
          /\ sync' = [sync EXCEPT
                !.pc = "done",
                !.response =
                   [ status |-> 200, materialsMirrored |-> mirrored,
                     failedCourseIds |-> IF sync.mode = "manual" THEN FailedCourseIds(sync)
                                         ELSE {},
                     knowledgeBaseIngestionStarted |-> kb.started,
                     knowledgeBaseIngestionError |-> kb.error,
                     usersSucceeded |-> sync.users_succeeded,
                     usersFailed |-> sync.users_failed,
                     userErrors |-> sync.user_errors,
                     failedCourseIdsByUser |-> sync.failed_course_ids_by_user ]]
    /\ UNCHANGED <<syncRuns, apiEnv, nonSyncVars>>

SyncIdle ==
    /\ sync = IdleSync
    /\ syncLog = <<>>
    /\ syncRuns = 0
    /\ apiEnv = ApiEnv(BucketValue, KbIdValue, 2, 3)

----------------------------------------------------------------------------
(* Calendar tokens (gurt/calendar_tokens) and the ICS feed                *)
(* (backend/runtime.py).  Timestamps are whole seconds; identifiers that  *)
(* the code concatenates into keys and UIDs are sequences of text pieces. *)

\* revoked_at = None, and a text the RFC3339 pattern rejects
NoTime == -1
BadTime == -2

\* what utc_now_rfc3339 can return (the hosts' clocks are not ordered)
CalendarTimes == {0, 1}

\* the revoked_at argument of store.revoke
RevokedAtArguments == CalendarTimes \cup {NoTime, BadTime}

\* authenticated principals; the second contains the key separator
Principals == { <<"u1">>, <<"u1", "#COURSE#", "c1">> }
NoUser == <<>>

Token(kind, n) == [kind |-> kind, n |-> n]
SeededToken == Token("seeded", 0)
UnknownToken == Token("unknown", 0)
NoToken == Token("none", 0)

\* default_token_factory: the n-th draw of secrets.token_urlsafe(32)
default_token_factory(n) == Token("random", n)

_is_rfc3339_utc(value) == value >= 0

CalendarTokenRecord(token, user_id, created_at, updated_at, revoked, revoked_at) ==
    [ token |-> token, user_id |-> user_id, created_at |-> created_at,
      updated_at |-> updated_at, revoked |-> revoked, revoked_at |-> revoked_at ]

NoRecord == CalendarTokenRecord(NoToken, NoUser, NoTime, NoTime, FALSE, NoTime)

\* mutant: a constructor that checks the fields but not their order in time
PostInitRaisesFieldsOnly(r) ==
    \/ r.token = NoToken
    \/ Strip(r.user_id) = <<>>
    \/ ~_is_rfc3339_utc(r.created_at)
    \/ ~_is_rfc3339_utc(r.updated_at)
    \/ r.revoked /\ r.revoked_at = NoTime
    \/ ~r.revoked /\ r.revoked_at # NoTime
    \/ r.revoked_at # NoTime /\ ~_is_rfc3339_utc(r.revoked_at)

\* CalendarTokenRecord.__post_init__: TRUE when it raises ValueError
PostInitRaises(r) ==
    \/ r.token = NoToken
    \/ Strip(r.user_id) = <<>>
    \/ ~_is_rfc3339_utc(r.created_at)
    \/ ~_is_rfc3339_utc(r.updated_at)
    \/ r.revoked /\ r.revoked_at = NoTime
    \/ ~r.revoked /\ r.revoked_at # NoTime
    \/ r.revoked_at # NoTime /\ ~_is_rfc3339_utc(r.revoked_at)
    \/ r.updated_at < r.created_at
    \/ r.revoked_at # NoTime /\ r.revoked_at < r.created_at
    \/ r.revoked_at # NoTime /\ r.revoked_at < r.updated_at

\* the outcome of a call that builds a record
Built(r) == [raised |-> PostInitRaises(r), record |-> r]

\* CalendarTokenRecord.mint
mint(token, user_id, now) ==
    Built(CalendarTokenRecord(token, user_id, now, now, FALSE, NoTime))

\* CalendarTokenRecord.revoke
revoke(self, revoked_at, now) ==
    LET revoked_ts == IF revoked_at = NoTime THEN now ELSE revoked_at
    IN Built(CalendarTokenRecord(self.token, self.user_id, self.created_at,
                                 revoked_ts, TRUE, revoked_ts))

\* CalendarTokenRecord.to_item: revokedAt is present only when set
to_item(r) ==
    [ token |-> r.token, userId |-> r.user_id, createdAt |-> r.created_at,
      updatedAt |-> r.updated_at, revoked |-> r.revoked, revokedAt |-> r.revoked_at ]

\* CalendarTokenRecord.from_item
from_item(item) ==
    Built(CalendarTokenRecord(item.token, item.userId, item.createdAt,
                              item.updatedAt, item.revoked, item.revokedAt))

\* DynamoDbCalendarTokenStore.save
save(table, record) == PutItem(table, record.token, to_item(record))

\* DynamoDbCalendarTokenStore.get: found is FALSE for None
get(table, token) ==
    IF token \in DOMAIN table
    THEN [found |-> TRUE, raised |-> from_item(table[token]).raised,
          record |-> from_item(table[token]).record]
    ELSE [found |-> FALSE, raised |-> FALSE, record |-> NoRecord]

MintingConfig(path, seeded_token, seeded_user_id) ==
    [path |-> path, seeded_token |-> seeded_token, seeded_user_id |-> seeded_user_id]

\* MintingConfig.from_env over the deployments' environments
MintingConfigs ==
    { MintingConfig("endpoint", NoToken, NoUser),
      MintingConfig("env", NoToken, NoUser),
      MintingConfig("env", SeededToken, NoUser),
      MintingConfig("env", SeededToken, <<"u1">>) }

\* _resolve_seeded_token: TRUE when it raises CalendarTokenMintingError
_resolve_seeded_token_raises(user_id, config) ==
    \/ config.seeded_token = NoToken
    \/ config.seeded_user_id # NoUser /\ config.seeded_user_id # user_id

\* mint_calendar_token; n numbers the draw of token_factory
mint_calendar_token(table, user_id, config, now, n) ==
    LET token == IF config.path = "env" THEN config.seeded_token
                 ELSE default_token_factory(n)
        minted == mint(token, user_id, now)
    IN IF Strip(user_id) = <<>>
       THEN [error |-> "CalendarTokenMintingError", record |-> NoRecord, table |-> table]
       ELSE IF config.path = "env" /\ _resolve_seeded_token_raises(user_id, config)
       THEN [error |-> "CalendarTokenMintingError", record |-> NoRecord, table |-> table]
       ELSE IF minted.raised
       THEN [error |-> "ValueError", record |-> NoRecord, table |-> table]
       ELSE [error |-> "none", record |-> minted.record,
             table |-> save(table, minted.record)]

\* what the latest mint or revoke returned
Outcome(op, status, record) == [op |-> op, status |-> status, record |-> record]
NoOutcome == Outcome("none", 0, NoRecord)

\* _handle_calendar_token_create for an authenticated principal
HandleCalendarTokenCreate(user_id, config, now) ==
    /\ calendarOps < MaxCalendarOps
    /\ calendarOps' = calendarOps + 1
    /\ LET result == mint_calendar_token(calendarTokens, user_id, config, now,
                                         factoryTokens + 1)
       IN /\ calendarTokens' = result.table
          /\ factoryTokens' = IF config.path = "endpoint" THEN factoryTokens + 1
                              ELSE factoryTokens
          /\ lastRecord' =
                IF result.error = "none" THEN Outcome("mint", 201, result.record)
                ELSE IF result.error = "CalendarTokenMintingError"
                THEN Outcome("mint", 400, NoRecord)
                ELSE Outcome("mint", 500, NoRecord)
    /\ UNCHANGED <<canvasData, revocation, feed, nonCalendarVars>>

IdleRevocation == [pc |-> "idle", revoked_at |-> NoTime, record |-> NoRecord]

\* the tokens a caller can present: stored ones and one that was never minted
PresentedTokens == DOMAIN calendarTokens \cup {UnknownToken}

\* DynamoDbCalendarTokenStore.revoke up to record = self.get(token)
StoreRevokeGet(token, revoked_at) ==
    /\ revocation.pc = "idle"
    /\ calendarOps < MaxCalendarOps
    /\ calendarOps' = calendarOps + 1
    /\ LET read == get(calendarTokens, token)
       IN IF ~read.found
          THEN /\ revocation' = IdleRevocation
               /\ lastRecord' = Outcome("revoke_none", 0, NoRecord)
          ELSE IF read.raised
          THEN /\ revocation' = IdleRevocation
               /\ lastRecord' = Outcome("revoke_raised", 0, NoRecord)
          ELSE /\ revocation' = [pc |-> "read", revoked_at |-> revoked_at,
                                 record |-> read.record]
               /\ UNCHANGED lastRecord
    /\ UNCHANGED <<calendarTokens, canvasData, feed, factoryTokens, nonCalendarVars>>

\* DynamoDbCalendarTokenStore.revoke from record.revoke to the return
StoreRevokeSave(now) ==
    /\ revocation.pc = "read"
    /\ revocation' = IdleRevocation
    /\ LET revoked == revoke(revocation.record, revocation.revoked_at, now)
       IN IF revoked.raised
          THEN /\ lastRecord' = Outcome("revoke_raised", 0, NoRecord)
               /\ UNCHANGED calendarTokens
          ELSE /\ calendarTokens' = save(calendarTokens, revoked.record)
               /\ lastRecord' = Outcome("revoke", 0, revoked.record)
    /\ UNCHANGED <<canvasData, feed, calendarOps, factoryTokens, nonCalendarVars>>

\* Canvas course ids and item ids, each list in the order of its sort keys
FeedCourseIds == << <<"c1", "#COURSE#", "c2">>, <<"c2">> >>
FeedItemIds == << <<"i1">>, <<"i2">> >>

\* studybuddy/models/canvas.py: the key builders
course_partition_key(user_id) == <<"USER#">> \o user_id
course_sort_key(course_id) == <<"COURSE#">> \o course_id
item_partition_key(user_id, course_id) ==
    <<"USER#">> \o user_id \o <<"#COURSE#">> \o course_id
item_sort_key(item_id) == <<"ITEM#">> \o item_id

CanvasKey(pk, sk) == [pk |-> pk, sk |-> sk]

\* Course.to_dynamodb_item and CanvasItem.to_dynamodb_item: the attributes
\* the feed reads (a course row has no courseId and no dueAt)
CourseRow(user_id, course_id) ==
    [ entityType |-> "CanvasCourse", userId |-> user_id, id |-> course_id,
      courseId |-> <<>>, dueAt |-> NoTime ]
ItemRow(user_id, course_id, item_id, due_at) ==
    [ entityType |-> "CanvasItem", userId |-> user_id, id |-> item_id,
      courseId |-> course_id, dueAt |-> due_at ]

\* a schedule item as _build_ics_payload receives it; an absent or blank
\* startAt or endAt is NoTime; writtenFor is the userId of the row the item
\* came from (history)
ScheduleItem(item_id, course_id, title, due_at, start_at, end_at, written_for) ==
    [ id |-> item_id, courseId |-> course_id, title |-> title, dueAt |-> due_at,
      startAt |-> start_at, endAt |-> end_at, writtenFor |-> written_for ]

\* the title of the rows the sync writes
RowTitle == <<"Quiz 1">>

\* _sync_canvas_assignments_for_user of user_id: the put of a course row
\* of a course without accepted assignments
PutCourseRow(user_id, course_id) ==
    /\ calendarOps < MaxCalendarOps
    /\ calendarOps' = calendarOps + 1
    /\ canvasData' =
          PutItem(canvasData,
                  CanvasKey(course_partition_key(user_id), course_sort_key(course_id)),
                  CourseRow(user_id, course_id))
    /\ UNCHANGED <<calendarTokens, revocation, lastRecord, feed, factoryTokens,
                   nonCalendarVars>>

\* _sync_canvas_assignments_for_user of user_id: the course row and then
\* an item row of that course, written by one flush of the batch
PutCourseItemRows(user_id, course_id, item_id, due_at) ==
    /\ calendarOps < MaxCalendarOps
    /\ calendarOps' = calendarOps + 1
    /\ canvasData' =
          PutItem(PutItem(canvasData,
                          CanvasKey(course_partition_key(user_id),
                                    course_sort_key(course_id)),
                          CourseRow(user_id, course_id)),
                  CanvasKey(item_partition_key(user_id, course_id), item_sort_key(item_id)),
                  ItemRow(user_id, course_id, item_id, due_at))
    /\ UNCHANGED <<calendarTokens, revocation, lastRecord, feed, factoryTokens,
                   nonCalendarVars>>

\* _query_canvas_partition_rows: does the partition hold a row at sk; the
\* sort keys the model writes start with the prefix the query asks for
HasRow(table, pk, sk, sk_prefix) ==
    CanvasKey(pk, sk) \in DOMAIN table /\ Head(sk) = sk_prefix

\* the course ids _query_canvas_items_for_user collects, in query order
QueriedCourseIds(table, user_id) ==
    LET Listed(course_id) ==
            /\ HasRow(table, <<"USER#">> \o user_id, course_sort_key(course_id), "COURSE#")
            /\ table[CanvasKey(<<"USER#">> \o user_id, course_sort_key(course_id))].entityType
                  = "CanvasCourse"
    IN SelectSeq(FeedCourseIds, Listed)

\* mutant: item rows accepted whatever their userId
ItemRowAcceptedAnyUser(row, user_id) ==
    /\ row.entityType = "CanvasItem"
    /\ row.id # <<>>
    /\ row.dueAt >= 0

\* the filters of the item loop of _query_canvas_items_for_user
ItemRowAccepted(row, user_id) ==
    /\ row.entityType = "CanvasItem"
    /\ row.userId = user_id
    /\ row.id # <<>>
    /\ row.dueAt >= 0

\* the normalized item of one accepted row; CanvasItem.to_dynamodb_item
\* writes a title and neither startAt nor endAt
Normalized(row, course_id) ==
    ScheduleItem(row.id, course_id, RowTitle, row.dueAt, NoTime, NoTime, row.userId)

\* the items of one course partition, in sort-key order
CourseItems(table, user_id, course_id) ==
    LET item_pk == <<"USER#">> \o user_id \o <<"#COURSE#">> \o course_id
        Accepted(item_id) ==
            /\ HasRow(table, item_pk, item_sort_key(item_id), "ITEM#")
            /\ ItemRowAccepted(table[CanvasKey(item_pk, item_sort_key(item_id))], user_id)
        ids == SelectSeq(FeedItemIds, Accepted)
    IN [ i \in 1..Len(ids) |->
            Normalized(table[CanvasKey(item_pk, item_sort_key(ids[i]))], course_id) ]

RECURSIVE Concat(_)
Concat(seqs) == IF seqs = <<>> THEN <<>> ELSE Head(seqs) \o Concat(Tail(seqs))

\* items.sort(key=dueAt): a stable sort
RECURSIVE SortedByDueAt(_, _)
SortedByDueAt(items, from) ==
    IF from \notin CalendarTimes THEN <<>>
    ELSE LET Due(item) == item.dueAt = from
         IN SelectSeq(items, Due) \o SortedByDueAt(items, from + 1)

\* _query_canvas_items_for_user
_query_canvas_items_for_user(table, user_id) ==
    LET course_ids == QueriedCourseIds(table, user_id)
    IN SortedByDueAt(
          Concat([ i \in 1..Len(course_ids) |-> CourseItems(table, user_id, course_ids[i]) ]),
          0)

\* _load_schedule_items_for_user with the fixture fallback disabled
_load_schedule_items_for_user(table, user_id) ==
    _query_canvas_items_for_user(table, user_id)

\* Times of schedule items are counted in half seconds, so that two
\* instants of one second exist; strftime("%Y%m%dT%H%M%SZ") drops the
\* fraction.
TicksPerSecond == 2
strftime(t) == t \div TicksPerSecond

\* timedelta(minutes=60)
SixtyMinutes == 60 * 60 * TicksPerSecond

\* _parse_rfc3339_utc(value) or fallback: None for a text fromisoformat
\* rejects (BadTime) and for no text (NoTime)
ParsedOr(value, fallback) == IF value >= 0 THEN value ELSE fallback

\* _resolve_event_window
_resolve_event_window(item) ==
    LET due_dt == item.dueAt
        start_at == IF item.startAt # NoTime THEN item.startAt ELSE item.dueAt
        end_at == IF item.endAt # NoTime THEN item.endAt ELSE item.dueAt
        start_dt == ParsedOr(start_at, due_dt)
        end_dt == ParsedOr(end_at, due_dt)
    IN IF item.dueAt < 0
       THEN [none |-> TRUE, start_ics |-> 0, end_ics |-> 0]
       ELSE [none |-> FALSE, start_ics |-> strftime(start_dt),
             end_ics |-> IF end_dt <= start_dt THEN strftime(start_dt + SixtyMinutes)
                         ELSE strftime(end_dt)]

\* the UID line of one VEVENT of _build_ics_payload
Uid(user_id, course_id, item_id) ==
    <<"studybuddy:">> \o user_id \o <<":">> \o course_id \o <<":">> \o item_id

\* str(item["title"]).replace("\n", " ").replace("\r", " ")
SummaryOf(title) ==
    [ i \in 1..Len(title) |-> IF title[i] \in {"\n", "\r"} THEN " " ELSE title[i] ]

\* mutant: a UID that also carries the due date of the item
VEventUidWithDueAt(user_id, item) ==
    [ uid |-> Uid(user_id, item.courseId, item.id) \o <<":", ToString(item.dueAt)>>,
      dtstamp |-> strftime(item.dueAt),
      dtstart |-> _resolve_event_window(item).start_ics,
      dtend |-> _resolve_event_window(item).end_ics,
      summary |-> SummaryOf(item.title),
      description |-> <<"Course ">> \o item.courseId,
      writtenFor |-> item.writtenFor ]

\* the lines of one VEVENT of _build_ics_payload
VEvent(user_id, item) ==
    [ uid |-> Uid(user_id, item.courseId, item.id),
      dtstamp |-> strftime(item.dueAt),
      dtstart |-> _resolve_event_window(item).start_ics,
      dtend |-> _resolve_event_window(item).end_ics,
      summary |-> SummaryOf(item.title),
      description |-> <<"Course ">> \o item.courseId,
      writtenFor |-> item.writtenFor ]

\* _build_ics_payload: the VEVENTs of the calendar; an item without a
\* resolved window is left out
_build_ics_payload(user_id, items) ==
    LET Resolved(item) == ~_resolve_event_window(item).none
        kept == SelectSeq(items, Resolved)
    IN [ i \in 1..Len(kept) |-> VEvent(user_id, kept[i]) ]

CalendarResponse(status, content_type, events) ==
    [status |-> status, content_type |-> content_type, events |-> events]
NoCalendarResponse == CalendarResponse(0, "none", <<>>)

\* _json_response(404, {"error": "calendar token not found"})
CalendarTokenNotFound == CalendarResponse(404, "application/json", <<>>)

\* mutant: only a missing record is refused
FeedRefusedMissingOnly(read) == ~read.found

\* the test record is None or record.revoked of _handle_calendar
FeedRefused(read) == ~read.found \/ read.record.revoked

\* _handle_calendar after record = store.get(token); a ValueError of
\* from_item leaves the handler (500)
CalendarAnswer(read, table) ==
    IF read.raised THEN CalendarResponse(500, "none", <<>>)
    ELSE IF FeedRefused(read) THEN CalendarTokenNotFound
    ELSE CalendarResponse(200, "text/calendar",
            _build_ics_payload(read.record.user_id,
                               _load_schedule_items_for_user(table, read.record.user_id)))

NotFoundRead == [found |-> FALSE, raised |-> FALSE, record |-> NoRecord]
IdleFeed == [pc |-> "idle", token |-> NoToken, read |-> NotFoundRead,
             response |-> NoCalendarResponse]

\* _handle_calendar up to record = store.get(token)
HandleCalendarGet(token) ==
    /\ feed.pc # "read"
    /\ feed' = [pc |-> "read", token |-> token, read |-> get(calendarTokens, token),
                response |-> NoCalendarResponse]
    /\ UNCHANGED <<calendarTokens, canvasData, revocation, lastRecord, calendarOps,
                   factoryTokens, nonCalendarVars>>

\* _handle_calendar from the test of the record to the response
HandleCalendarRespond ==
    /\ feed.pc = "read"
    /\ feed' = [feed EXCEPT !.pc = "done",
                            !.response = CalendarAnswer(feed.read, canvasData)]
    /\ UNCHANGED <<calendarTokens, canvasData, revocation, lastRecord, calendarOps,
                   factoryTokens, nonCalendarVars>>

CalendarIdle ==
    /\ calendarTokens = << >>
    /\ canvasData = << >>
    /\ revocation = IdleRevocation
    /\ lastRecord = NoOutcome
    /\ feed = IdleFeed
    /\ calendarOps = 0
    /\ factoryTokens = 0

----------------------------------------------------------------------------
(* Functions evaluated on their own: call holds the inputs of one         *)
(* evaluation and its result.                                             *)

NoCall == [fn |-> "none"]

\* titles, one with a line break, and the instants of an item's fields
IcsTitles == { <<"Q", "u", "i", "z">>, <<"L", "a", "b", "\n", "2">> }
EventTimes == {0, 1, 2}
IcsItems ==
    { ScheduleItem(<<"i1">>, <<"c1">>, title, due_at, start_at, end_at, <<"u1">>) :
        title \in IcsTitles, due_at \in EventTimes \cup {BadTime},
        start_at \in EventTimes \cup {NoTime, BadTime},
        end_at \in EventTimes \cup {NoTime, BadTime} }

\* before is the feed built ahead of the latest one (history)
IcsCall(item, built, events, before) ==
    [fn |-> "_build_ics_payload", user_id |-> <<"u1">>, item |-> item,
     built |-> built, events |-> events, before |-> before]

\* _build_ics_payload(user_id=..., items=[item]) on the item as it is now
BuildIcsPayload ==
    /\ evaluation.fn = "_build_ics_payload"
    /\ ~evaluation.built
    /\ evaluation' =
          IcsCall(evaluation.item, TRUE,
                  _build_ics_payload(evaluation.user_id, <<evaluation.item>>),
                  evaluation.events)
    /\ UNCHANGED nonCallVars

\* the title, dueAt, startAt and endAt of the item change between two feeds
ItemFieldsChange(title, due_at, start_at, end_at) ==
    /\ evaluation.fn = "_build_ics_payload"
    /\ evaluation.built
    /\ evaluation' =
          IcsCall(ScheduleItem(evaluation.item.id, evaluation.item.courseId, title,
                               due_at, start_at, end_at, evaluation.item.writtenFor),
                  FALSE, evaluation.events, evaluation.before)
    /\ UNCHANGED nonCallVars

\* KB retrieval (backend/generation.py).  A source is its URL scheme and
\* the non-empty parts of its path; "" is no source.
Source(scheme, parts) == [scheme |-> scheme, parts |-> parts]
NoSource == Source("", <<>>)

RetrievalCourseIds == {"170880", "canvas-materials"}

RetrievalSources ==
    { Source("s3", <<"uploads", "170880", "d1", "a.pdf">>),
      Source("s3", <<"canvas-materials", "u1", "170880", "f1", "b.pdf">>),
      Source("s3", <<"uploads", "999", "d2", "c.pdf">>),
      Source("s3", <<"uploads", "canvas-materials", "d3", "e.pdf">>),
      Source("https", <<"170880", "d1", "a.pdf">>),
      NoSource }

RetrievalRow(text, source) == [text |-> text, source |-> source]

\* the rows of a KB answer: chunks with text, and one whose text is blank
RetrievalRows ==
    { RetrievalRow(<<"t">>, source) : source \in RetrievalSources }
        \cup { RetrievalRow(<<" ">>, Source("s3", <<"uploads", "170880", "d1", "a.pdf">>)) }

MaxResults == 3
RetrievalResults == UNION { [1..n -> RetrievalRows] : n \in 0..MaxResults }

\* what the two client.retrieve calls do: the filtered one raises, answers
\* no rows or answers the rows; the unfiltered one raises or answers them
KbBehaviours ==
    [filtered : {"raises", "empty", "results"}, unfiltered : {"raises", "results"}]

\* _s3_key_from_source and key.split("/") without the empty parts; <<>> is
\* None or an empty key
KeyParts(source) == IF source.scheme = "s3" THEN source.parts ELSE <<>>

\* _source_in_course_scope
_source_in_course_scope(source, course_id) ==
    LET key_parts == KeyParts(source)
        parts == IF key_parts # <<>> /\ key_parts[1] = "uploads" THEN Tail(key_parts)
                 ELSE key_parts
    IN IF key_parts = <<>> THEN FALSE
       ELSE IF parts = <<>> THEN FALSE
       ELSE IF parts[1] = "canvas-materials"
       THEN Len(parts) >= 3 /\ parts[3] = course_id
       ELSE parts[1] = course_id

\* _retrieve_response_with_fallback
_retrieve_response_with_fallback(kb, rows) ==
    IF kb.filtered = "results" /\ rows # <<>> THEN [raised |-> FALSE, results |-> rows]
    ELSE IF kb.unfiltered = "raises" THEN [raised |-> TRUE, results |-> <<>>]
    ELSE [raised |-> FALSE, results |-> rows]

\* context[:k]
FirstK(seq, k) == SubSeq(seq, 1, Min2(k, Len(seq)))

\* the entries _retrieve_context keeps of the rows: all_valid
AllValid(results) ==
    LET HasText(row) == Strip(row.text) # <<>>
        kept == SelectSeq(results, HasText)
    IN [ i \in 1..Len(kept) |-> RetrievalRow(Strip(kept[i].text), kept[i].source) ]

\* the choice between scoped and all_valid of _retrieve_context
ContextOf(all_valid, course_id) ==
    LET InCourse(entry) == _source_in_course_scope(entry.source, course_id)
        scoped == SelectSeq(all_valid, InCourse)
    IN IF scoped # <<>> THEN scoped ELSE all_valid

\* _retrieve_context: GenerationError when the retrieval raised
_retrieve_context(course_id, kb, rows, k) ==
    LET response == _retrieve_response_with_fallback(kb, rows)
    IN IF response.raised THEN [raised |-> TRUE, context |-> <<>>]
       ELSE [raised |-> FALSE,
             context |-> FirstK(ContextOf(AllValid(response.results), course_id), k)]

RetrieveCall(course_id, kb, rows, k, done, result) ==
    [fn |-> "_retrieve_context", course_id |-> course_id, kb |-> kb, rows |-> rows,
     k |-> k, done |-> done, result |-> result]

NoContext == [raised |-> FALSE, context |-> <<>>]

\* one call of _retrieve_context
RetrieveContext ==
    /\ evaluation.fn = "_retrieve_context"
    /\ ~evaluation.done
    /\ evaluation' =
          RetrieveCall(evaluation.course_id, evaluation.kb, evaluation.rows, evaluation.k,
                       TRUE,
                       _retrieve_context(evaluation.course_id, evaluation.kb,
                                         evaluation.rows, evaluation.k))
    /\ UNCHANGED nonCallVars

----------------------------------------------------------------------------
(* Chat and generation requests (backend/runtime.py, backend/generation.py): *)
(* POST /chat, /generate/flashcards, /generate/flashcards-from-materials    *)
(* and /generate/practice-exam.  One request runs at a time; every call of  *)
(* Bedrock or S3 is one step, and so is every put_item of a generated card. *)
(* A question is the sequence of its words; the questions of the model are  *)
(* short enough for every .{0,n} window of the patterns.                    *)

GUARDRAIL_BLOCKED_MESSAGE ==
    "Request blocked by study safety guardrails. Ask for course-grounded study help."
GUARDRAIL_BLOCKED_CHAT_ANSWER ==
    "I can't help with bypassing instructions or cheating. I can help with course concepts, summaries, and practice questions."

\* a pattern is the sequence of its \b(...)\b groups, a group the set of
\* its alternatives, an alternative the sequence of its words
_PROMPT_INJECTION_PATTERNS ==
    << << { <<"ignore">>, <<"disregard">>, <<"bypass">>, <<"override">> },
          { <<"instruction">>, <<"policy">>, <<"rule">>, <<"system">>, <<"developer">> } >>,
       << { <<"reveal">>, <<"show">>, <<"print">>, <<"leak">>, <<"display">> },
          { <<"system", "prompt">>, <<"developer", "prompt">>, <<"hidden", "prompt">> } >>,
       << { <<"jailbreak">>, <<"dan", "mode">>, <<"developer", "mode">> } >> >>

GradedWork == { <<"exam">>, <<"quiz">>, <<"test">>, <<"homework">>, <<"assignment">> }

_CHEATING_PATTERNS ==
    << << { <<"answer">>, <<"solve">>, <<"complete">>, <<"do">>, <<"write">> },
          { <<"my">>, <<"this">>, <<"the">> },
          GradedWork \cup { <<"take-home">> } >>,
       << { <<"give">>, <<"show">>, <<"send">> },
          { <<"answer", "key">>, <<"answer">>, <<"answers">> },
          GradedWork >>,
       << { <<"take">> }, { <<"my">>, <<"the">> }, { <<"exam">>, <<"quiz">>, <<"test">> },
          { <<"for", "me">> } >>,
       << { <<"cheat">>, <<"cheating">> }, { <<"on">>, <<"for">> }, GradedWork >> >>

\* re.IGNORECASE on the words of the model
LowerWord(word) == IF word = "IGNORE" THEN "ignore" ELSE word

\* pattern.search(text): the groups match in order, each at a word boundary
RECURSIVE Search(_, _, _)
Search(pattern, text, from) ==
    IF pattern = <<>> THEN TRUE
    ELSE \E i \in from..Len(text) : \E words \in Head(pattern) :
            /\ i + Len(words) - 1 <= Len(text)
            /\ SubSeq(text, i, i + Len(words) - 1) = words
            /\ Search(Tail(pattern), text, i + Len(words))

AnySearch(patterns, text) == \E p \in 1..Len(patterns) : Search(patterns[p], text, 1)

\* _enforce_question_safety with the cheating patterns left out
_enforce_question_safetyInjectionOnly(question) ==
    LET text == [i \in 1..Len(question) |-> LowerWord(question[i])]
    IN IF text = <<>> THEN FALSE
       ELSE AnySearch(_PROMPT_INJECTION_PATTERNS, text)

\* _enforce_question_safety: TRUE when it raises GuardrailBlockedError
_enforce_question_safety(question) ==
    LET text == [i \in 1..Len(question) |-> LowerWord(question[i])]
    IN IF text = <<>> THEN FALSE
       ELSE \/ AnySearch(_PROMPT_INJECTION_PATTERNS, text)
            \/ AnySearch(_CHEATING_PATTERNS, text)

Questions ==
    { <<>>,
      <<"what", "is", "federalism">>,
      <<"IGNORE", "the", "system">>,
      <<"ignore", "instructions">>,
      <<"show", "the", "hidden", "prompt">>,
      <<"jailbreak">>,
      <<"cheat", "on", "the", "exam">>,
      <<"exam", "on", "cheat">>,
      <<"take", "my", "quiz", "for", "me">> }

GenerationRoutes ==
    { "/chat", "/generate/flashcards", "/generate/flashcards-from-materials",
      "/generate/practice-exam" }

\* class A is class B or one of its subclasses
IsInstance(exc, class) ==
    \/ exc = class
    \/ exc = "GuardrailBlockedError" /\ class \in {"GenerationError", "RuntimeError"}
    \/ exc = "GenerationError" /\ class = "RuntimeError"

GenerationResponse(status, kind, text) == [status |-> status, kind |-> kind, text |-> text]
NoGenerationResponse == GenerationResponse(0, "none", "")

\* the except clauses of _handle_chat and of the three generation handlers
HandlerExcept(exc, message) ==
    IF IsInstance(exc, "ValueError") THEN GenerationResponse(400, "error", message)
    ELSE IF IsInstance(exc, "GenerationError") THEN GenerationResponse(502, "error", message)
    ELSE GenerationResponse(502, "error", message)

\* what a handler answers when nothing was raised
HandlerReturn(route, status, text) ==
    IF status # 200 THEN GenerationResponse(status, "error", text)
    ELSE IF route = "/chat" THEN GenerationResponse(200, "answer", text)
    ELSE IF route = "/generate/practice-exam" THEN GenerationResponse(200, "exam", text)
    ELSE GenerationResponse(200, "cards", text)

\* a row of the array the model answers: complete when it has a prompt and
\* an answer
ModelCardRows == [id : CardIds, complete : BOOLEAN]
ModelRows == UNION { [1..n -> ModelCardRows] : n \in 0..2 }

\* what invoke_model does: it raises, its body is unreadable, or it answers
\* a payload, which may carry a guardrail marker
ModelPayloads ==
    { [outcome |-> o, guardrail |-> FALSE, rows |-> <<>>, text |-> ""] :
        o \in {"raises", "unreadable"} }
      \cup [outcome : {"payload"}, guardrail : BOOLEAN, rows : ModelRows, text : {"text"}]
      \cup [outcome : {"payload"}, guardrail : BOOLEAN, rows : {<<>>}, text : {""}]

\* what retrieve_and_generate does
RagOutcomes == {"answer", "offcourse", "empty", "refusal", "guardrail", "raises"}

\* the courseId of the request body: a course, or blank
RequestCourseIds == {"c1", ""}

\* the rows the KB answers to a generation request
GenerationRows ==
    { <<>>, <<RetrievalRow(<<"t">>, Source("s3", <<"uploads", "c1", "d1", "a.pdf">>))>> }

\* the client.retrieve calls of _retrieve_response_with_fallback
RetrieveCalls(kb, rows) ==
    IF kb.filtered = "results" /\ rows # <<>> THEN <<"retrieve">>
    ELSE <<"retrieve", "retrieve">>

IdleGeneration ==
    [ pc |-> "idle", route |-> "none", question |-> <<>>, course_id |-> "none",
      num_cards |-> 0, calls |-> <<>>, pending |-> <<>>, now |-> 0,
      exc |-> "none", message |-> "", response |-> NoGenerationResponse,
      before |-> << >> ]

\* a request enters its handler
Entered(route, question, course_id, num_cards) ==
    [ IdleGeneration EXCEPT !.pc = "entered", !.route = route, !.question = question,
                            !.course_id = course_id, !.num_cards = num_cards,
                            !.before = cards ]

\* the handler returns a response without raising
Return(g, status, text) ==
    [g EXCEPT !.pc = "done", !.response = HandlerReturn(g.route, status, text)]

\* an exception reaches the except clauses of the handler
Raise(g, exc, message) ==
    [g EXCEPT !.pc = "done", !.exc = exc, !.message = message,
              !.response = HandlerExcept(exc, message)]

At(g, pc) == [g EXCEPT !.pc = pc]
Called(g, calls) == [g EXCEPT !.calls = @ \o calls]

\* _handle_chat up to the first retrieve_and_generate of chat_answer
HandleChat(course_id, question, env_set) ==
    /\ generation.pc \in {"idle", "done"}
    /\ LET g == Entered("/chat", question, course_id, 0)
       IN generation' =
             IF question = <<>> THEN Raise(g, "ValueError", "question is required")
             ELSE IF _enforce_question_safety(question)
             THEN Raise(g, "GuardrailBlockedError", GUARDRAIL_BLOCKED_MESSAGE)
             ELSE IF ~env_set
             THEN Raise(g, "GenerationError", "server misconfiguration: KNOWLEDGE_BASE_ID missing")
             ELSE At(g, "rag_filtered")
    /\ UNCHANGED nonGenerationVars

\* one client.retrieve_and_generate of _retrieve_and_generate, and what
\* chat_answer does with the response
RetrieveAndGenerate(outcome) ==
    /\ generation.pc \in {"rag_filtered", "rag_unfiltered"}
    /\ LET g == Called(generation, <<"retrieve_and_generate">>)
           filtered == generation.pc = "rag_filtered"
       IN generation' =
             IF outcome = "guardrail"
             THEN Raise(g, "GuardrailBlockedError", GUARDRAIL_BLOCKED_MESSAGE)
             ELSE IF outcome = "raises"
             THEN IF filtered THEN At(g, "rag_unfiltered")
                  ELSE Raise(g, "GenerationError", "retrieve_and_generate failed")
             ELSE IF outcome = "refusal" /\ filtered THEN At(g, "rag_unfiltered")
             ELSE IF outcome = "empty"
             THEN Raise(g, "GenerationError", "retrieve_and_generate returned empty response")
             ELSE IF outcome = "offcourse" THEN At(g, "retrieve")
             ELSE Return(g, 200, "answer")
    /\ UNCHANGED nonGenerationVars

\* _handle_generate_flashcards and _handle_generate_practice_exam up to the
\* _retrieve_context of generate_flashcards and generate_practice_exam
HandleGenerate(route, course_id, num_cards) ==
    /\ generation.pc \in {"idle", "done"}
    /\ route \in {"/generate/flashcards", "/generate/practice-exam"}
    /\ route = "/generate/flashcards" => generations + num_cards <= MaxGenerations
    /\ LET g == Entered(route, <<>>, course_id, Min2(num_cards, 100))
       IN generation' =
             IF course_id = "" THEN Raise(g, "ValueError", "courseId is required")
             ELSE IF num_cards < 1 THEN Return(g, 400, "numCards must be >= 1")
             ELSE At(g, "retrieve")
    /\ UNCHANGED nonGenerationVars

\* _handle_generate_flashcards_from_materials up to the invoke_model of
\* generate_flashcards_from_materials: the principal, the material rows
\* and the s3.get_object of each material
HandleGenerateFromMaterials(authenticated, course_id, num_cards, material, fetched) ==
    /\ generation.pc \in {"idle", "done"}
    /\ generations + num_cards <= MaxGenerations
    /\ LET route == "/generate/flashcards-from-materials"
           g == Entered(route, <<>>, course_id, Min2(num_cards, 100))
       IN generation' =
             IF ~authenticated THEN Return(g, 401, "authenticated principal is required")
             ELSE IF course_id = "" THEN Raise(g, "ValueError", "courseId is required")
             ELSE IF num_cards < 1 THEN Return(g, 400, "numCards must be >= 1")
             ELSE IF material = "missing" THEN Return(g, 404, "material not found for this course")
             ELSE IF material = "no_file" THEN Return(g, 404, "material has no associated file")
             ELSE IF ~fetched
             THEN Raise(Called(g, <<"get_object">>), "GenerationError",
                        "failed to fetch material from S3")
             ELSE At(Called(g, <<"get_object">>), "invoke")
    /\ UNCHANGED nonGenerationVars

\* the _retrieve_context of generate_flashcards, generate_practice_exam and
\* _chat_answer_manual
GenerationRetrieve(kb, rows) ==
    /\ generation.pc = "retrieve"
    /\ LET g == Called(generation, RetrieveCalls(kb, rows))
           retrieved == _retrieve_context(generation.course_id, kb, rows, 8)
       IN generation' =
             IF retrieved.raised
             THEN Raise(g, "GenerationError", "knowledge base retrieval failed")
             ELSE IF retrieved.context = <<>>
             THEN Raise(g, "GenerationError", "no knowledge base context available")
             ELSE At(g, "invoke")
    /\ UNCHANGED nonGenerationVars

\* _invoke_model_json: the exception it raises, "none" when it returns
_invoke_model_json(payload) ==
    IF payload.outcome = "raises" THEN "GenerationError"
    ELSE IF payload.outcome = "unreadable" THEN "GenerationError"
    ELSE IF payload.guardrail THEN "GuardrailBlockedError"
    ELSE "none"

\* the cards generate_flashcards builds of the rows: ids of complete rows
ValidCards(rows) ==
    LET Complete(row) == row.complete
        kept == SelectSeq(rows, Complete)
    IN [ i \in 1..Len(kept) |-> kept[i].id ]

\* what the generation raises or returns: exc, its message, and the cards
\* or the answer the payload holds
Generated(route, payload, num_cards) ==
    LET exc == _invoke_model_json(payload)
        made == IF payload.outcome = "payload" THEN FirstK(ValidCards(payload.rows), num_cards)
                ELSE <<>>
    IN IF exc # "none"
       THEN [exc |-> exc, cards |-> made,
             message |-> IF exc = "GuardrailBlockedError" THEN GUARDRAIL_BLOCKED_MESSAGE
                         ELSE "model invocation failed"]
       ELSE IF route = "/chat"
       THEN IF payload.text = ""
            THEN [exc |-> "GenerationError", cards |-> <<>>,
                  message |-> "manual chat model returned empty answer"]
            ELSE [exc |-> "none", cards |-> <<>>, message |-> ""]
       ELSE IF ValidCards(payload.rows) = <<>>
       THEN [exc |-> "GenerationError", cards |-> <<>>,
             message |-> "model response did not contain valid rows"]
       ELSE [exc |-> "none", cards |-> made, message |-> ""]

\* the cards handed to _persist_generated_cards whatever the generation did
PersistedDespiteError(route, generated) ==
    IF route \in {"/generate/flashcards", "/generate/flashcards-from-materials"}
    THEN generated.cards
    ELSE <<>>

\* the cards handed to _persist_generated_cards: the statement after the
\* generation in the try block runs when the generation returned
Persisted(route, generated) ==
    IF /\ route \in {"/generate/flashcards", "/generate/flashcards-from-materials"}
       /\ generated.exc = "none"
    THEN generated.cards
    ELSE <<>>

\* the handler is past its last put_item
Finished(g) ==
    IF g.exc # "none" THEN Raise(g, g.exc, g.message)
    ELSE Return(g, 200, IF g.route = "/chat" THEN "answer" ELSE "generated")

\* the client.invoke_model of the generation and what the generation makes
\* of the payload; now is the _utc_now_rfc3339() of _persist_generated_cards
InvokeModel(payload, cards_table_set, now) ==
    /\ generation.pc = "invoke"
    /\ LET generated == Generated(generation.route, payload, generation.num_cards)
           to_put == IF cards_table_set THEN Persisted(generation.route, generated)
                     ELSE <<>>
           g == [Called(generation, <<"invoke_model">>) EXCEPT
                    !.exc = generated.exc, !.message = generated.message,
                    !.pending = to_put, !.now = now]
       IN generation' = IF to_put = <<>> THEN Finished(g) ELSE At(g, "persist")
    /\ UNCHANGED nonGenerationVars

\* one table.put_item of _persist_generated_cards
PersistCard ==
    /\ generation.pc = "persist"
    /\ generations < MaxGenerations
    /\ generations' = generations + 1
    /\ cards' = PutCard(cards, Head(generation.pending),
                        GeneratedCard(Head(generation.pending), generation.course_id,
                                      generation.now, generations + 1))
    /\ LET g == [generation EXCEPT !.pending = Tail(@)]
       IN generation' = IF g.pending = <<>> THEN Finished(g) ELSE g
    /\ UNCHANGED <<reviews, nextReview, ingestVars, syncVars, calendarVars, callVars>>

GenerationIdle == generation = IdleGeneration

----------------------------------------------------------------------------
(* The dispatcher (backend/runtime.py lambda_handler) and the CORS headers *)
(* of its responses.  A path is the sequence of its segments; a handler is *)
(* the set of the replies it can build: the builder and the status.        *)

\* CORS_ALLOW_ORIGIN, CORS_ALLOW_METHODS and CORS_ALLOW_HEADERS: unset,
\* blank, or a value with blanks around it
CorsValues(value) == { <<>>, <<" ">>, <<" ", value, " ">> }
CorsEnvs ==
    [ origin : CorsValues("https://gurt.app"), methods : CorsValues("GET"),
      headers : CorsValues("Content-Type") ]

\* os.getenv(name, default).strip() or default
getenv(value, default) ==
    LET set == IF value = <<>> THEN default ELSE value
    IN IF Strip(set) # <<>> THEN Strip(set) ELSE default

RuntimeAllowHeaders ==
    <<"Content-Type,Authorization,X-Amz-Date,X-Api-Key,X-Amz-Security-Token,X-Gurt-Demo-User-Id">>
UploadsAllowHeaders ==
    <<"Content-Type,Authorization,X-Amz-Date,X-Api-Key,X-Amz-Security-Token">>

NoHeader == <<>>
Headers(content_type, origin, methods, headers) ==
    [ content_type |-> content_type, allow_origin |-> origin, allow_methods |-> methods,
      allow_headers |-> headers ]

\* _cors_headers
_cors_headers(cors) ==
    Headers(NoHeader, getenv(cors.origin, <<"*">>), getenv(cors.methods, <<"GET,POST,OPTIONS">>),
            getenv(cors.headers, RuntimeAllowHeaders))

DispatchResponse(status_code, headers) == [statusCode |-> status_code, headers |-> headers]
NoDispatchResponse == DispatchResponse(0, Headers(NoHeader, NoHeader, NoHeader, NoHeader))

\* _json_response
_json_response(status_code, cors) ==
    DispatchResponse(status_code,
                     [_cors_headers(cors) EXCEPT !.content_type = <<"application/json">>])

\* _text_response without headers.update(_cors_headers())
_text_responseNoCors(status_code, content_type, cors) ==
    DispatchResponse(status_code, Headers(content_type, NoHeader, NoHeader, NoHeader))

\* _text_response
_text_response(status_code, content_type, cors) ==
    DispatchResponse(status_code, [_cors_headers(cors) EXCEPT !.content_type = content_type])

\* uploads._build_json_response
_build_json_response(status_code, cors) ==
    DispatchResponse(status_code,
                     Headers(<<"application/json">>, getenv(cors.origin, <<"*">>),
                             getenv(cors.methods, <<"GET,POST,OPTIONS">>),
                             getenv(cors.headers, UploadsAllowHeaders)))

Reply(builder, status) == [builder |-> builder, status |-> status]
Json(statuses) == { Reply("_json_response", status) : status \in statuses }
Text(statuses) == { Reply("_text_response", status) : status \in statuses }
Calendar(statuses) == { Reply("text/calendar", status) : status \in statuses }
Uploads(statuses) == { Reply("_build_json_response", status) : status \in statuses }

\* the replies of each handler, and of each branch of lambda_handler
HandlerReplies(handler) ==
    CASE handler = "_handle_scheduled_canvas_sync" -> Json({200, 500})
      [] handler = "_handle_chat" -> Json({400, 502}) \cup Text({200})
      [] handler = "uploads.lambda_handler" -> Uploads({200, 400, 500})
      [] handler = "health" -> Json({200})
      [] handler \in {"_handle_courses", "_handle_course_materials", "_handle_course_items"}
            -> Json({401, 500}) \cup Text({200})
      [] handler = "_handle_calendar_token_create" -> Json({201, 400, 401, 500})
      [] handler = "_handle_docs_ingest_start" -> Json({202, 400, 500})
      [] handler = "_handle_docs_ingest_status" -> Json({200, 404, 500})
      [] handler \in {"_handle_canvas_connect", "_handle_canvas_sync"}
            -> Json({200, 400, 401, 500, 502})
      [] handler \in {"_handle_generate_flashcards", "_handle_generate_practice_exam"}
            -> Json({400, 502}) \cup Text({200})
      [] handler = "_handle_generate_flashcards_from_materials"
            -> Json({400, 401, 404, 502}) \cup Text({200})
      [] handler = "_handle_calendar" -> Json({404, 500}) \cup Calendar({200})
      [] handler \in {"study/today", "study/mastery"} -> Json({400}) \cup Text({200})
      [] handler = "study/review" -> Json({200, 400})
      [] OTHER -> Json({503, 404})

DispatchEvent(scheduled, method, path) ==
    [scheduled |-> scheduled, method |-> method, path |-> path]

\* the last segment ends with .ics
IcsSegments == { "t1.ics" }

\* the branch of lambda_handler an event takes
Route(event) ==
    LET method == event.method
        path == event.path
    IN IF event.scheduled THEN "_handle_scheduled_canvas_sync"
       ELSE IF method = "POST" /\ path = <<"chat">> THEN "_handle_chat"
       ELSE IF method = "POST" /\ path = <<"uploads">> THEN "uploads.lambda_handler"
       ELSE IF method = "GET" /\ path = <<"health">> THEN "health"
       ELSE IF method = "GET" /\ path = <<"courses">> THEN "_handle_courses"
       ELSE IF method = "GET" /\ Len(path) = 3 /\ path[1] = "courses" /\ path[3] = "materials"
       THEN "_handle_course_materials"
       ELSE IF method = "GET" /\ Len(path) = 3 /\ path[1] = "courses" /\ path[3] = "items"
       THEN "_handle_course_items"
       ELSE IF method = "POST" /\ path = <<"calendar", "token">>
       THEN "_handle_calendar_token_create"
       ELSE IF method = "POST" /\ path = <<"docs", "ingest">> THEN "_handle_docs_ingest_start"
       ELSE IF method = "GET" /\ Len(path) = 3 /\ SubSeq(path, 1, 2) = <<"docs", "ingest">>
       THEN "_handle_docs_ingest_status"
       ELSE IF method = "POST" /\ path = <<"canvas", "connect">> THEN "_handle_canvas_connect"
       ELSE IF method = "POST" /\ path = <<"canvas", "sync">> THEN "_handle_canvas_sync"
       ELSE IF method = "POST" /\ path = <<"generate", "flashcards">>
       THEN "_handle_generate_flashcards"
       ELSE IF method = "POST" /\ path = <<"generate", "flashcards-from-materials">>
       THEN "_handle_generate_flashcards_from_materials"
       ELSE IF method = "POST" /\ path = <<"generate", "practice-exam">>
       THEN "_handle_generate_practice_exam"
       ELSE IF method = "GET" /\ Len(path) = 2 /\ path[1] = "calendar" /\ path[2] \in IcsSegments
       THEN "_handle_calendar"
       ELSE IF method = "GET" /\ path = <<"study", "today">> THEN "study/today"
       ELSE IF method = "POST" /\ path = <<"study", "review">> THEN "study/review"
       ELSE IF method = "GET" /\ path = <<"study", "mastery">> THEN "study/mastery"
       ELSE "not found"

\* lambda_handler: the response of the reply the handler builds
lambda_handler(event, cors, reply) ==
    IF reply.builder = "_json_response" THEN _json_response(reply.status, cors)
    ELSE IF reply.builder = "_text_response"
    THEN _text_response(reply.status, <<"application/json">>, cors)
    ELSE IF reply.builder = "text/calendar"
    THEN _text_response(reply.status, <<"text/calendar">>, cors)
    ELSE _build_json_response(reply.status, cors)

DispatchPaths ==
    { <<"chat">>, <<"uploads">>, <<"health">>, <<"courses">>, <<"courses", "c1", "materials">>,
      <<"courses", "c1", "items">>, <<"calendar", "token">>, <<"docs", "ingest">>,
      <<"docs", "ingest", "d1">>, <<"canvas", "connect">>, <<"canvas", "sync">>,
      <<"generate", "flashcards">>, <<"generate", "flashcards-from-materials">>,
      <<"generate", "practice-exam">>, <<"calendar", "t1.ics">>, <<"study", "today">>,
      <<"study", "review">>, <<"study", "mastery">>, <<"nowhere">> }

DispatchEvents ==
    { DispatchEvent(FALSE, method, path) : method \in {"GET", "POST", "OPTIONS"},
                                           path \in DispatchPaths }
        \cup { DispatchEvent(TRUE, "", <<>>) }

DispatchCall(event, cors, done, handler, response) ==
    [fn |-> "lambda_handler", event |-> event, cors |-> cors, done |-> done,
     handler |-> handler, response |-> response]

\* one invocation of lambda_handler
LambdaHandler(reply) ==
    /\ evaluation.fn = "lambda_handler"
    /\ ~evaluation.done
    /\ reply \in HandlerReplies(Route(evaluation.event))
    /\ evaluation' =
          DispatchCall(evaluation.event, evaluation.cors, TRUE, Route(evaluation.event),
                       lambda_handler(evaluation.event, evaluation.cors, reply))
    /\ UNCHANGED nonCallVars

----------------------------------------------------------------------------
(* GET /study/today (backend/runtime.py _runtime_study_today).  Instants   *)
(* are counted in half days; a stability is in hundredths, as in the FSRS  *)
(* scheduler; a card id is the sequence of its characters.                 *)

_STUDY_TODAY_DEFAULT_COUNT == 5
_STUDY_TODAY_MAX_COUNT == 50
_STUDY_TODAY_NEAR_EXAM_DAYS == 7
\* _STUDY_TODAY_LOW_MASTERY_THRESHOLD = 0.5, in thousandths
_STUDY_TODAY_LOW_MASTERY_THRESHOLD == 500

TicksPerDay == 2
\* timedelta(days=...)
timedelta(days) == days * TicksPerDay

\* the characters of the ids, in the order str compares them
IdAlphabet == <<"0", "1", "2", "3", "4", "5", "6", "7", "8", "9", "E", "a", "b", "c", "p">>
CharRank(c) == CHOOSE i \in 1..Len(IdAlphabet) : IdAlphabet[i] = c

\* str < str
RECURSIVE StrLess(_, _)
StrLess(s, t) ==
    IF t = <<>> THEN FALSE
    ELSE IF s = <<>> THEN TRUE
    ELSE IF Head(s) = Head(t) THEN StrLess(Tail(s), Tail(t))
    ELSE CharRank(Head(s)) < CharRank(Head(t))

StudyCard(id, topic_id, due_at, stability) ==
    [id |-> id, topicId |-> topic_id, dueAt |-> due_at, stability |-> stability]

\* the key (_safe_timestamp_for_sort(dueAt), id)
DueAtIdLess(a, b) == a.dueAt < b.dueAt \/ (a.dueAt = b.dueAt /\ StrLess(a.id, b.id))

\* _is_due_timestamp
_is_due_timestamp(value, now) == IF value < 0 THEN TRUE ELSE value <= now

\* min(1.0, max(0.0, stability / 10.0)) in thousandths; 0.0 without fsrsState
MasteryScore(card) ==
    IF card.stability = NoNumber THEN 0 ELSE Min2(1000, Max2(0, card.stability))

RECURSIVE SumScores(_)
SumScores(cards_) ==
    IF cards_ = <<>> THEN 0 ELSE MasteryScore(Head(cards_)) + SumScores(Tail(cards_))

\* _compute_topic_mastery of one topic: the mean as sum over count
_compute_topic_mastery(cards_, topic_id) ==
    LET OfTopic(card) == card.topicId = topic_id
        topic_cards == SelectSeq(cards_, OfTopic)
    IN [sum |-> SumScores(topic_cards), count |-> Max2(Len(topic_cards), 1)]

MasteryLess(a, b) == a.sum * b.count < b.sum * a.count
LowMastery(mastery) == mastery.sum < _STUDY_TODAY_LOW_MASTERY_THRESHOLD * mastery.count

\* the key (mastery of the topic, dueAt, id) of the boosters
MasteryDueAtIdLess(cards_, a, b) ==
    LET ma == _compute_topic_mastery(cards_, a.topicId)
        mb == _compute_topic_mastery(cards_, b.topicId)
    IN \/ MasteryLess(ma, mb)
       \/ ~MasteryLess(mb, ma) /\ DueAtIdLess(a, b)

\* the order of the sort keys: of (dueAt, id), or of the boosters' key
KeyLess(key, cards_, a, b) ==
    IF key = "dueAt, id" THEN DueAtIdLess(a, b) ELSE MasteryDueAtIdLess(cards_, a, b)

\* row goes ahead of the first row of sorted that is not less than it
RECURSIVE Inserted(_, _, _, _)
Inserted(row, sorted, key, cards_) ==
    IF sorted = <<>> THEN <<row>>
    ELSE IF KeyLess(key, cards_, Head(sorted), row)
    THEN <<Head(sorted)>> \o Inserted(row, Tail(sorted), key, cards_)
    ELSE <<row>> \o sorted

\* list.sort(key=...): rows of equal keys keep their order
RECURSIVE SortedBy(_, _, _)
SortedBy(rows, key, cards_) ==
    IF rows = <<>> THEN <<>>
    ELSE Inserted(Head(rows), SortedBy(Tail(rows), key, cards_), key, cards_)

\* _list_runtime_cards_for_course: the rows of the course, sorted
_list_runtime_cards_for_course(rows) == SortedBy(rows, "dueAt, id", rows)

ExamItem(id, item_type, due_at) == [id |-> id, itemType |-> item_type, dueAt |-> due_at]
NoExamId == <<>>

\* mutant: an examId that names no exam falls back to the nearest exam
_resolve_exam_due_atFallsBack(items, exam_id, now) ==
    LET IsExamRow(item) == item.itemType = "exam" /\ item.id # <<>> /\ item.dueAt >= 0
        exam_rows == SelectSeq(items, IsExamRow)
        Named(item) == item.id = exam_id
        named == SelectSeq(exam_rows, Named)
        Upcoming(item) == item.dueAt >= now
        upcoming == SortedBy(SelectSeq(exam_rows, Upcoming), "dueAt, id", <<>>)
    IN IF exam_id # NoExamId /\ named # <<>> THEN named[1].dueAt
       ELSE IF upcoming = <<>> THEN NoTime ELSE upcoming[1].dueAt

\* _resolve_exam_due_at; NoTime is None
_resolve_exam_due_at(items, exam_id, now) ==
    LET IsExamRow(item) == item.itemType = "exam" /\ item.id # <<>> /\ item.dueAt >= 0
        exam_rows == SelectSeq(items, IsExamRow)
        Named(item) == item.id = exam_id
        named == SelectSeq(exam_rows, Named)
        Upcoming(item) == item.dueAt >= now
        upcoming == SortedBy(SelectSeq(exam_rows, Upcoming), "dueAt, id", <<>>)
    IN IF exam_id # NoExamId
       THEN IF named # <<>> THEN named[1].dueAt ELSE NoTime
       ELSE IF upcoming = <<>> THEN NoTime ELSE upcoming[1].dueAt

\* near_exam with the exam on the last instant of the window left out
NearExamBeforeLastInstant(exam_due_at, now) ==
    /\ exam_due_at # NoTime
    /\ now <= exam_due_at
    /\ exam_due_at < now + timedelta(_STUDY_TODAY_NEAR_EXAM_DAYS)

\* near_exam
NearExam(exam_due_at, now) ==
    /\ exam_due_at # NoTime
    /\ now <= exam_due_at
    /\ exam_due_at <= now + timedelta(_STUDY_TODAY_NEAR_EXAM_DAYS)

\* boosters without the test on due_card_ids
BoostersOfEveryCard(cards_, due_cards) ==
    LET Mastery(card) == _compute_topic_mastery(cards_, card.topicId)
        Boosts(card) == LowMastery(Mastery(card))
    IN SortedBy(SelectSeq(cards_, Boosts), "mastery, dueAt, id", cards_)

\* boosters, sorted by (mastery of the topic, dueAt, id)
Boosters(cards_, due_cards) ==
    LET Mastery(card) == _compute_topic_mastery(cards_, card.topicId)
        due_card_ids == { due_cards[i].id : i \in 1..Len(due_cards) }
        Boosts(card) == card.id \notin due_card_ids /\ LowMastery(Mastery(card))
    IN SortedBy(SelectSeq(cards_, Boosts), "mastery, dueAt, id", cards_)

\* the ids of the rows, in their order
IdsOf(chosen) == [ i \in 1..Len(chosen) |-> chosen[i].id ]

\* the ids of chosen[:_STUDY_TODAY_MAX_COUNT]
ReturnedIds(chosen) ==
    [ i \in 1..Min2(Len(chosen), _STUDY_TODAY_MAX_COUNT) |-> chosen[i].id ]

\* _runtime_study_today: what it returns, and the lists it went through
_runtime_study_today(rows, items, exam_id, now) ==
    LET cards_ == _list_runtime_cards_for_course(rows)
        IsDue(card) == _is_due_timestamp(card.dueAt, now)
        due_cards == SortedBy(SelectSeq(cards_, IsDue), "dueAt, id", cards_)
        exam_due_at == _resolve_exam_due_at(items, exam_id, now)
        near_exam == NearExam(exam_due_at, now)
        boosters == IF near_exam THEN Boosters(cards_, due_cards) ELSE <<>>
        chosen == due_cards \o boosters
        fallback == chosen = <<>>
    IN [ exam_due_at |-> exam_due_at, near_exam |-> near_exam,
         due_cards |-> due_cards, boosters |-> boosters,
         returned |-> IF cards_ = <<>> THEN <<>>
                      ELSE IF fallback
                      THEN ReturnedIds(FirstK(cards_, _STUDY_TODAY_DEFAULT_COUNT))
                      ELSE ReturnedIds(chosen) ]

\* the instant of the request, and the instants around the window
StudyNow == 10
ExamTimes ==
    { StudyNow - 1, StudyNow, StudyNow + 1, StudyNow + timedelta(_STUDY_TODAY_NEAR_EXAM_DAYS),
      StudyNow + timedelta(_STUDY_TODAY_NEAR_EXAM_DAYS) + 1, BadTime }

\* cards of the course due long ago, enough of them to fill the response
RECURSIVE PaddingCards(_)
PaddingCards(n) ==
    IF n = 0 THEN <<>>
    ELSE <<StudyCard(<<"p">> \o Decimal(n), "PAD", StudyNow - 2, 900)>> \o PaddingCards(n - 1)

\* the rows table.scan() answers for the course: three cards, from none to
\* all of them due, alone or after the padding
FewStudyRows ==
    { c \o <<b, a>> :
        a \in { StudyCard(<<"a">>, "LOW", due_at, stability) :
                  due_at \in {StudyNow, StudyNow + 1}, stability \in {NoNumber, 900} },
        b \in { StudyCard(<<"b">>, topic_id, due_at, stability) :
                  topic_id \in {"LOW", "HIGH"}, due_at \in {StudyNow - 1, StudyNow + 1},
                  stability \in {100, 900} },
        c \in { <<>>, <<StudyCard(<<"c">>, "HIGH", StudyNow + 1, 100)>>,
                <<StudyCard(<<"c">>, "HIGH", StudyNow + 1, 900)>> } }

ManyStudyRows ==
    { PaddingCards(_STUDY_TODAY_MAX_COUNT - 1) \o <<b, a>> :
        a \in { StudyCard(<<"a">>, "LOW", due_at, NoNumber) : due_at \in {StudyNow, StudyNow + 1} },
        b \in { StudyCard(<<"b">>, "LOW", due_at, 100) : due_at \in {StudyNow - 1, StudyNow + 1} } }

StudyRows == FewStudyRows \cup ManyStudyRows \cup { <<>> }

\* the items of the course: an exam or an assignment E1, and a later exam E2
StudyItems ==
    { <<ExamItem(<<"E", "2">>, "exam", StudyNow + 2)>> \o first :
        first \in { <<>> } \cup
                  { <<ExamItem(<<"E", "1">>, item_type, due_at)>> :
                      item_type \in {"exam", "assignment"}, due_at \in ExamTimes } }
      \cup { <<>> }

ExamIds == { NoExamId, <<"E", "1">>, <<"E", "9">> }

TodayCall(rows, items, exam_id, now, done, result) ==
    [fn |-> "_runtime_study_today", rows |-> rows, items |-> items, exam_id |-> exam_id,
     now |-> now, done |-> done, result |-> result]

NoToday ==
    [ exam_due_at |-> NoTime, near_exam |-> FALSE, due_cards |-> <<>>, boosters |-> <<>>,
      returned |-> <<>> ]

\* one call of _runtime_study_today
RuntimeStudyToday ==
    /\ evaluation.fn = "_runtime_study_today"
    /\ ~evaluation.done
    /\ evaluation' =
          TodayCall(evaluation.rows, evaluation.items, evaluation.exam_id, evaluation.now,
                    TRUE,
                    _runtime_study_today(evaluation.rows, evaluation.items,
                                         evaluation.exam_id, evaluation.now))
    /\ UNCHANGED nonCallVars

----------------------------------------------------------------------------
(* schedule_review (study/fsrs.py) on its own: every prior state of the    *)
(* model, every rating and every review time.                              *)

\* prior states: a stability below the minimum and far above it, a
\* difficulty outside its range, a last review after the review time
PriorStates ==
    { FSRSState(0, stability, difficulty, reps, 0, last_reviewed_at) :
        stability \in {1, 15, 100, 5000}, difficulty \in {0, 100, 550, 1000, 2000},
        reps \in {0, 3}, last_reviewed_at \in {0, 24, 2000} }
      \cup { NoFsrs }

ScheduleTimes == {0, 30, 1000}

ScheduleCall(prior_state, rating, now, done, result) ==
    [fn |-> "schedule_review", prior_state |-> prior_state, rating |-> rating,
     now |-> now, done |-> done, result |-> result]

NoSchedule == [raised |-> FALSE, state |-> NoFsrs]

\* one call of schedule_review
ScheduleReview ==
    /\ evaluation.fn = "schedule_review"
    /\ ~evaluation.done
    /\ evaluation' =
          ScheduleCall(evaluation.prior_state, evaluation.rating, evaluation.now, TRUE,
                       schedule_review(evaluation.prior_state, evaluation.rating,
                                       [form |-> "utc_z", t |-> evaluation.now]))
    /\ UNCHANGED nonCallVars

----------------------------------------------------------------------------
(* Specifications *)

IngestIdle ==
    /\ docs = << >>
    /\ exec = [j \in JobIds |-> IdleExecution]
    /\ nextJob = 1
    /\ kbCalls = {}
    /\ lastFinalize = NoFinalize
    /\ statusHistory = [j \in JobIds |-> <<>>]
    /\ invocations = 0
    /\ env \in {FinalizeEnv(<<"t">>, KbIdValue, KbIdValue, <<>>)}

CallIdle == evaluation = NoCall
NonIngestIdle == StudyIdle /\ SyncIdle /\ CalendarIdle /\ GenerationIdle /\ CallIdle
NonStudyIdle == IngestIdle /\ SyncIdle /\ CalendarIdle /\ GenerationIdle /\ CallIdle
NonSyncIdle == IngestIdle /\ StudyIdle /\ CalendarIdle /\ GenerationIdle /\ CallIdle
NonCalendarIdle == IngestIdle /\ StudyIdle /\ SyncIdle /\ GenerationIdle /\ CallIdle
NonGenerationIdle == IngestIdle /\ StudyIdle /\ SyncIdle /\ CalendarIdle /\ CallIdle
NonCallIdle == IngestIdle /\ StudyIdle /\ SyncIdle /\ CalendarIdle /\ GenerationIdle

InitIngest ==
    /\ NonIngestIdle
    /\ docs = << >>
    /\ exec = [j \in JobIds |-> IdleExecution]
    /\ nextJob = 1
    /\ kbCalls = {}
    /\ lastFinalize = NoFinalize
    /\ statusHistory = [j \in JobIds |-> <<>>]
    /\ invocations = 0
    /\ env \in IngestEnvs

NextIngest ==
    \/ \E key \in SourceKeys, startRaises \in BOOLEAN : StartIngestJob(key, startRaises)
    \/ \E j \in JobIds, obj \in S3Objects : IngestExtractStep(j, obj)
    \/ \E j \in JobIds, startRaises \in BOOLEAN : IngestStartTextractStep(j, startRaises)
    \/ \E j \in JobIds : IngestWait(j)
    \/ \E j \in JobIds, response \in TextractResponses : IngestPollTextractStep(j, response)
    \/ \E j \in JobIds, kbRaises \in BOOLEAN, lost \in BOOLEAN :
          IngestFinalizeStep(j, kbRaises, lost)
    \/ \E j \in JobIds : IngestTimeout(j)

SpecIngest == InitIngest /\ [][NextIngest]_vars

InitFinalize ==
    /\ NonIngestIdle
    /\ docs = << >>
    /\ exec = [j \in JobIds |-> IdleExecution]
    /\ nextJob = 1
    /\ kbCalls = {}
    /\ lastFinalize = NoFinalize
    /\ statusHistory = [j \in JobIds |-> <<>>]
    /\ invocations = 0
    /\ env \in FinalizeEnvs

NextFinalize ==
    \E payload \in FinalizePayloads, kbRaises \in BOOLEAN : InvokeFinalize(payload, kbRaises)

SpecFinalize == InitFinalize /\ [][NextFinalize]_vars

InitStudy ==
    /\ NonStudyIdle
    /\ StudyIdle

NextStudy ==
    \/ \E payload \in ReviewPayloads : ReviewRead(payload)
    \/ \E r \in 1..MaxReviews : ReviewWrite(r)
    \/ \E k \in {"k1"}, c \in CourseIds, now \in GenerationTimes :
          PersistGeneratedCard(k, c, now)

SpecStudy == InitStudy /\ [][NextStudy]_vars

InitSync ==
    /\ NonSyncIdle
    /\ sync = IdleSync
    /\ syncLog = <<>>
    /\ syncRuns = 0
    /\ apiEnv \in ApiEnvs

NextSync ==
    \/ \E user \in Users \cup {"u3"}, authenticated \in BOOLEAN :
          HandleCanvasSync(user, authenticated)
    \/ HandleScheduledCanvasSync
    \/ \E outcome \in {"ok", "api_error"} : SyncAssignmentsFetchCourses(outcome)
    \/ \E outcome \in AssignmentOutcomes : SyncAssignmentsCourse(outcome)
    \/ SyncAssignmentsExit
    \/ \E outcome \in {"ok", "api_error"} : SyncMaterialsBegin(outcome)
    \/ \E outcome \in FilesOutcomes : SyncMaterialsCourse(outcome)
    \/ SyncMaterialsFile
    \/ SyncMaterialsExit
    \/ \E kbRaises \in BOOLEAN : SyncFinish(kbRaises)

SpecSync == InitSync /\ [][NextSync]_vars

InitCalendar ==
    /\ NonCalendarIdle
    /\ CalendarIdle

NextCalendar ==
    \/ \E user_id \in Principals, config \in MintingConfigs, now \in CalendarTimes :
          HandleCalendarTokenCreate(user_id, config, now)
    \/ \E token \in PresentedTokens, revoked_at \in RevokedAtArguments :
          StoreRevokeGet(token, revoked_at)
    \/ \E now \in CalendarTimes : StoreRevokeSave(now)
    \/ \E user_id \in Principals, course_id \in Range(FeedCourseIds) :
          PutCourseRow(user_id, course_id)
    \/ \E user_id \in Principals, course_id \in Range(FeedCourseIds),
          item_id \in Range(FeedItemIds), due_at \in CalendarTimes :
          PutCourseItemRows(user_id, course_id, item_id, due_at)
    \/ \E token \in PresentedTokens : HandleCalendarGet(token)
    \/ HandleCalendarRespond

SpecCalendar == InitCalendar /\ [][NextCalendar]_vars

InitGeneration ==
    /\ NonGenerationIdle
    /\ GenerationIdle

NextGeneration ==
    \/ \E question \in Questions, env_set \in BOOLEAN : HandleChat("c1", question, env_set)
    \/ \E outcome \in RagOutcomes : RetrieveAndGenerate(outcome)
    \/ \E route \in GenerationRoutes, course_id \in RequestCourseIds,
          num_cards \in 0..MaxGenerations :
          HandleGenerate(route, course_id, num_cards)
    \/ \E authenticated \in BOOLEAN, course_id \in RequestCourseIds,
          num_cards \in 0..MaxGenerations, material \in {"found", "missing", "no_file"},
          fetched \in BOOLEAN :
          HandleGenerateFromMaterials(authenticated, course_id, num_cards, material, fetched)
    \/ \E kb \in KbBehaviours, rows \in GenerationRows : GenerationRetrieve(kb, rows)
    \/ \E payload \in ModelPayloads, cards_table_set \in BOOLEAN, now \in GenerationTimes :
          InvokeModel(payload, cards_table_set, now)
    \/ PersistCard

SpecGeneration == InitGeneration /\ [][NextGeneration]_vars

InitDispatch ==
    /\ NonCallIdle
    /\ evaluation \in { DispatchCall(event, cors, FALSE, "none", NoDispatchResponse) :
                           event \in DispatchEvents, cors \in CorsEnvs }

NextDispatch ==
    \E builder \in {"_json_response", "_text_response", "text/calendar", "_build_json_response"},
       status \in {200, 201, 202, 400, 401, 404, 500, 502, 503} :
       LambdaHandler(Reply(builder, status))

SpecDispatch == InitDispatch /\ [][NextDispatch]_vars

InitToday ==
    /\ NonCallIdle
    /\ evaluation \in { TodayCall(rows, items, exam_id, StudyNow, FALSE, NoToday) :
                           rows \in StudyRows, items \in StudyItems, exam_id \in ExamIds }

NextToday == RuntimeStudyToday

SpecToday == InitToday /\ [][NextToday]_vars

InitSchedule ==
    /\ NonCallIdle
    /\ evaluation \in { ScheduleCall(prior_state, rating, now, FALSE, NoSchedule) :
                           prior_state \in PriorStates, rating \in 1..4,
                           now \in ScheduleTimes }

NextSchedule == ScheduleReview

SpecSchedule == InitSchedule /\ [][NextSchedule]_vars

InitIcs ==
    /\ NonCallIdle
    /\ evaluation \in { IcsCall(item, FALSE, <<>>, <<>>) : item \in IcsItems }

NextIcs ==
    \/ BuildIcsPayload
    \/ \E title \in IcsTitles, due_at \in EventTimes \cup {BadTime},
          start_at \in EventTimes \cup {NoTime, BadTime},
          end_at \in EventTimes \cup {NoTime, BadTime} :
          ItemFieldsChange(title, due_at, start_at, end_at)

SpecIcs == InitIcs /\ [][NextIcs]_vars

InitRetrieve ==
    /\ NonCallIdle
    /\ evaluation \in
          { RetrieveCall(course_id, kb, rows, k, FALSE, NoContext) :
              course_id \in RetrievalCourseIds, kb \in KbBehaviours,
              rows \in RetrievalResults, k \in {1, 2} }

NextRetrieve == RetrieveContext

SpecRetrieve == InitRetrieve /\ [][NextRetrieve]_vars

----------------------------------------------------------------------------
(* Properties of the ingest workflow *)

Terminal == {"FINISHED", "FAILED"}

\* C1: every job's row is created RUNNING and its status is changed exactly
\* once, to FINISHED or FAILED; once terminal it is never rewritten to
\* RUNNING or to the other terminal value.  Read off the history of the
\* row's statuses once the job's execution has run to its end.
C1_StatusChangedExactlyOnce ==
    \A j \in JobIds :
        LET h == statusHistory[j]
        IN /\ h # <<>> => h[1] = "RUNNING"
           /\ Len(h) <= 2
           /\ Len(h) = 2 => h[2] \in Terminal
           /\ exec[j].pc \in Ended \ {"not_started"} => Len(h) = 2

\* C2: the workflow converges: once a job's execution has ended its row is
\* FINISHED or FAILED, and an execution that failed in a step has the
\* failure recorded on the row.
C2_EndedExecutionIsRecorded ==
    \A j \in JobIds :
        /\ exec[j].pc \in {"succeeded", "failed", "timed_out"} =>
              docs[j].status \in Terminal
        /\ exec[j].pc = "failed" =>
              docs[j].status = "FAILED" /\ docs[j].error # <<>>

OcrEvents == {"start_ocr", "poll_pending", "poll_done"}

\* C3: in one job extract completes before any OCR call; when OCR was
\* started finalize runs only directly after a poll that reported done;
\* after a poll that reported not done the workflow waits and polls again
\* and does not finalize.
C3_IngestOrdering ==
    \A j \in JobIds :
        LET t == exec[j].trace
        IN /\ exec[j].pc \in {"start_textract", "initial_wait", "poll", "poll_wait"} =>
                 t # <<>> /\ t[1] = "extract"
           /\ \A i \in 1..Len(t) : t[i] \in OcrEvents => i > 1 /\ t[1] = "extract"
           /\ \A i \in 1..Len(t) :
                 (t[i] = "finalize" /\ \E k \in 1..(i - 1) : t[k] = "start_ocr") =>
                    t[i - 1] \in {"poll_done", "finalize"}
           /\ \A i \in 1..Len(t) :
                 (t[i] = "poll_pending" /\ i < Len(t)) => t[i + 1] \in {"poll_pending", "poll_done"}
           /\ (t # <<>> /\ t[Len(t)] = "poll_pending") =>
                 exec[j].pc \in {"poll_wait", "poll", "failed", "timed_out"}
           /\ exec[j].pc = "finalize" /\ exec[j].payload.usedTextract =>
                 exec[j].payload.done

\* C3 witness: a job polled while the OCR was pending, polled again,
\* and finalized after the poll that reported done.
C3_Witness ==
    \E j \in JobIds :
        exec[j].trace = <<"extract", "start_ocr", "poll_pending", "poll_done", "finalize">>

\* C5: whenever finalize writes a row, the row is FAILED iff its error is
\* a non-empty string and FINISHED iff the error is empty, and the status
\* finalize returns is the row's.
C5_FailedIffError ==
    lastFinalize.wrote =>
        \A row \in lastFinalize.rows :
            /\ row.status = "FAILED" <=> row.error # <<>>
            /\ row.status = "FINISHED" <=> row.error = <<>>
            /\ lastFinalize.outcome = "returned" =>
                  lastFinalize.result.status = row.status

\* C5 witness: finalize wrote a FAILED row for a padded error, and
\* (second disjunct unused) the row carries the stripped error.
C5_Witness ==
    /\ lastFinalize.wrote
    /\ lastFinalize.payloadError = <<" ", "e">>
    /\ \E row \in lastFinalize.rows : row.status = "FAILED" /\ row.error = <<"e">>

\* C6 as stated: every invocation of finalize returns a status (never raises).
C6_FinalizeNeverRaises ==
    lastFinalize.outcome \in {"none", "returned"}

\* C6 amended: an invocation whose payload has the four ids and whose
\* DOCS_TABLE is configured never raises: an error in the payload is
\* recorded on the row as FAILED, a KB trigger failure as kbIngestionError,
\* and a status is returned; an invocation without one of the ids raises
\* ValueError, one without DOCS_TABLE raises RuntimeError, both before
\* any write.
C6_RaisesOnlyOnBadInvocation ==
    lastFinalize.outcome # "none" =>
        /\ lastFinalize.valid =>
              /\ lastFinalize.outcome = "returned"
              /\ lastFinalize.wrote
              /\ lastFinalize.result.status \in Terminal
              /\ \A row \in lastFinalize.rows :
                    /\ row.error = Strip(lastFinalize.payloadError)
                    /\ Strip(lastFinalize.payloadError) # <<>> => row.status = "FAILED"
                    /\ (row.status = "FINISHED" /\ lastFinalize.kbConfigured
                            /\ lastFinalize.kbRaises) => row.kbIngestionError # NoAttr
        /\ ~lastFinalize.valid =>
              /\ lastFinalize.outcome \in {"ValueError", "RuntimeError"}
              /\ ~lastFinalize.wrote

\* C6 witness: a well-formed invocation whose KB trigger call raised
\* still returned.
C6_Witness ==
    /\ lastFinalize.valid
    /\ lastFinalize.kbConfigured /\ lastFinalize.kbRaises
    /\ lastFinalize.written = "FINISHED"
    /\ lastFinalize.outcome = "returned"

\* C7: the client token finalize submits is a function of (sourceKey,
\* textLength): two submissions with the same pair carry the same token,
\* two with different pairs carry different tokens.
C7_TokenDeterminedByPair ==
    \A c1 \in kbCalls, c2 \in kbCalls :
        (c1.sourceKey = c2.sourceKey /\ c1.textLength = c2.textLength)
            <=> c1.clientToken = c2.clientToken

\* C7 witness: submissions for key "a" with 12 characters and for key
\* "a1" with 2 characters, whose renderings differ only by the separator.
C7_Witness ==
    \E c1 \in kbCalls, c2 \in kbCalls :
        /\ c1.sourceKey = <<"a">> /\ c1.textLength = 12
        /\ c2.sourceKey = <<"a", "1">> /\ c2.textLength = 2

\* C8: when finalize decides FINISHED and the KB ingestion cannot be
\* triggered (ids missing, or the start call raises), the row stays
\* FINISHED, carries a non-empty kbIngestionError, and FINISHED is returned.
C8_TriggerFailureKeepsFinished ==
    ( /\ lastFinalize.valid
      /\ lastFinalize.written = "FINISHED"
      /\ ~lastFinalize.kbConfigured \/ lastFinalize.kbRaises ) =>
        /\ lastFinalize.outcome = "returned"
        /\ lastFinalize.result.status = "FINISHED"
        /\ \A row \in lastFinalize.rows :
              /\ row.status = "FINISHED"
              /\ row.kbIngestionError \notin {NoAttr, <<>>}
        /\ docs[lastFinalize.jobId].status = "FINISHED"

\* C8 witness: the ids were configured and the start call raised.
C8_Witness ==
    /\ lastFinalize.valid
    /\ lastFinalize.written = "FINISHED"
    /\ lastFinalize.kbConfigured /\ lastFinalize.kbRaises
    /\ \E row \in lastFinalize.rows : row.kbIngestionError = TriggerFailedMessage

\* C9: a finalize run that records FAILED submits no KB ingestion job, and
\* no FAILED row carries kbIngestionJobId or kbIngestionError.
C9_FailedSkipsKb ==
    /\ lastFinalize.written = "FAILED" => lastFinalize.calls = {}
    /\ \A j \in DOMAIN docs :
          docs[j].status = "FAILED" =>
              docs[j].kbIngestionJobId = NoAttr /\ docs[j].kbIngestionError = NoAttr

\* C9 witness: finalize recorded FAILED while the KB ids were configured,
\* on a row that an earlier FINISHED run had patched.
C9_Witness ==
    /\ lastFinalize.written = "FAILED"
    /\ lastFinalize.kbConfigured
    /\ invocations = 2
    /\ Cardinality(kbCalls) = 1
    /\ \E c \in kbCalls : c.jobId = lastFinalize.jobId


(* C4: under any interleaving of concurrent reviews of one card, the stored *)
(* row is the full row one single request wrote: its dueAt, fsrsState and   *)
(* reviewCount were all computed by the same writer and agree with each     *)
(* other.                                                                   *)
C4_RowNeverTorn ==
    \A k \in DOMAIN cards :
        LET row == cards[k]
        IN /\ row.who.dueAt = row.who.fsrsState
           /\ row.who.fsrsState = row.who.reviewCount
           /\ row.fsrsState.present =>
                /\ row.dueAt = row.fsrsState.dueAt
                /\ row.lastReviewedAt = row.fsrsState.lastReviewedAt
                /\ row.reviewCount >= 1
           /\ ~row.fsrsState.present => row.reviewCount = NoNumber

\* two reviews of the one generated card both read it before either wrote,
\* and both have written: the later put replaced the earlier one
C4_Witness ==
    /\ generations = 1
    /\ \A r \in 1..2 : reviews[r].pc = "done" /\ reviews[r].applied
    /\ "k1" \in DOMAIN cards
    /\ cards["k1"].fsrsState.present
    /\ cards["k1"].reviewCount = 1


(* C10: in a sync for one user every assignment write (course rows and     *)
(* assignment rows) precedes every mirrored material of that user, and the *)
(* KB trigger comes after every mirrored material and material row, once   *)
(* the per-user sync functions have returned.                              *)
C10_AssignmentsThenMaterialsThenKb ==
    /\ \A i, j \in 1..Len(syncLog) :
          i < j =>
            /\ ~ /\ syncLog[i].kind = "mirror"
                 /\ syncLog[j].kind \in {"course_row", "assignment_row"}
                 /\ syncLog[j].user = syncLog[i].user
            /\ ~ /\ syncLog[i].kind = "kb_trigger"
                 /\ syncLog[j].kind \in {"mirror", "material_row"}
    /\ (\E i \in 1..Len(syncLog) : syncLog[i].kind = "kb_trigger") => sync.pc = "done"

\* a finished POST /canvas/sync that wrote an assignment, mirrored a material
\* and triggered the KB
C10_Witness ==
    /\ sync.mode = "manual"
    /\ sync.pc = "done"
    /\ sync.response.status = 200
    /\ \E i, j, k \in 1..Len(syncLog) :
          /\ i < j /\ j < k
          /\ syncLog[i].kind = "assignment_row"
          /\ syncLog[j].kind = "mirror"
          /\ syncLog[j].user = syncLog[i].user
          /\ syncLog[k].kind = "kb_trigger"


CountKind(log, kind) == Cardinality({ i \in 1..Len(log) : log[i].kind = kind })

KbConfigured(e) ==
    /\ Strip(e.KNOWLEDGE_BASE_ID) # <<>>
    /\ Strip(e.KNOWLEDGE_BASE_DATA_SOURCE_ID) # <<>>

ManualSyncDone == sync.mode = "manual" /\ sync.pc = "done"

(* C11 as stated: a user sync submits exactly one KB re-index job if a     *)
(* material was mirrored during it, and none if no material was mirrored.  *)
C11_OneKbJobIffMirrored ==
    ManualSyncDone =>
        CountKind(syncLog, "kb_trigger") =
            IF CountKind(syncLog, "mirror") > 0 THEN 1 ELSE 0

(* C11 amended: a user sync calls start_ingestion_job exactly once when it *)
(* returns 200 with materialsMirrored > 0 and both KB ids are configured,  *)
(* and never otherwise.                                                    *)
C11_OneKbJobIffCountedAndConfigured ==
    ManualSyncDone =>
        CountKind(syncLog, "kb_trigger") =
            IF /\ sync.response.status = 200
               /\ sync.response.materialsMirrored > 0
               /\ KbConfigured(apiEnv)
            THEN 1 ELSE 0

\* a finished user sync that mirrored two materials and submitted one job
C11_Witness ==
    /\ ManualSyncDone
    /\ sync.response.status = 200
    /\ sync.response.materialsMirrored = 2
    /\ CountKind(syncLog, "mirror") = 2
    /\ CountKind(syncLog, "kb_trigger") = 1


FetchKinds == {"assignments_fetch", "files_fetch"}

\* the step in which the LMS answered one course with the given outcome
FetchStep(outcome) ==
    /\ Len(syncLog') > Len(syncLog)
    /\ syncLog'[Len(syncLog) + 1].kind \in FetchKinds
    /\ syncLog'[Len(syncLog) + 1].outcome = outcome

\* the failed list of the pass a fetch belongs to
FailedListOf(kind) ==
    IF kind = "assignments_fetch" THEN sync.failed_assignment_course_ids
    ELSE sync.failed_material_course_ids

\* no course the LMS denied in a pass is in the failed list of that pass
DeniedNotFailed ==
    \A i \in 1..Len(syncLog) :
        ( /\ syncLog[i].kind \in FetchKinds
          /\ syncLog[i].outcome = "denied"
          /\ syncLog[i].user = sync.user )
        => syncLog[i].course \notin Range(FailedListOf(syncLog[i].kind))

\* a denied course only moves the loop on to the next course
DeniedOnlySkips ==
    FetchStep("denied") =>
        /\ sync'.pc = sync.pc
        /\ sync'.user = sync.user
        /\ sync'.courses = Tail(sync.courses)
        /\ sync'.failed_assignment_course_ids = sync.failed_assignment_course_ids
        /\ sync'.failed_material_course_ids = sync.failed_material_course_ids
        /\ sync'.users_failed = sync.users_failed
        /\ sync'.user_errors = sync.user_errors
        /\ sync'.response = sync.response

(* C12: a 403 for one course skips that course only: it is not put into    *)
(* the failed course ids, the loop goes on with the user's next course, and *)
(* the user is not counted as failed.                                       *)
C12_AccessDeniedSkipsCourse == []DeniedNotFailed /\ [][DeniedOnlySkips]_vars

\* a finished user sync in which the first course was denied, the second
\* course was fetched after it, and nothing is reported as failed
C12_Witness ==
    /\ ManualSyncDone
    /\ sync.response.status = 200
    /\ sync.response.failedCourseIds = {}
    /\ \E i, j \in 1..Len(syncLog) :
          /\ i < j
          /\ syncLog[i] = Fetch("assignments_fetch", "u1", "c1", "denied")
          /\ syncLog[j] = Fetch("assignments_fetch", "u1", "c2", "ok")


\* the failed list, after the step, of the pass whose fetch the step made
FailedListAfterFetch ==
    IF syncLog'[Len(syncLog) + 1].kind = "assignments_fetch"
    THEN sync'.failed_assignment_course_ids
    ELSE sync'.failed_material_course_ids

\* the course is recorded as failed and the loop goes on with the next one
MarksCourseFailedAndGoesOn ==
    /\ Head(sync.courses) \in Range(FailedListAfterFetch)
    /\ sync'.pc = sync.pc
    /\ sync'.user = sync.user
    /\ sync'.courses = Tail(sync.courses)
    /\ sync'.users_failed = sync.users_failed
    /\ sync'.user_errors = sync.user_errors
    /\ sync'.response = sync.response

(* C13: any LMS error other than AccessDenied on one course (an HTTP or    *)
(* transport failure, or a response of unexpected shape) puts the course   *)
(* into the failed course ids and does not abort the user: the loop goes   *)
(* on with the next course.                                                *)
C13_LmsErrorMarksCourseFailed ==
    [][(FetchStep("api_error") \/ FetchStep("malformed")) => MarksCourseFailedAndGoesOn]_vars


ScheduledSync == sync.mode = "scheduled"

\* the users for whom an exception left the per-user sync functions
RaisedUsers == { syncLog[i].user : i \in { j \in 1..Len(syncLog) : syncLog[j].kind = "raised" } }

\* the users whose sync was begun (fetch_active_courses was called for them)
AttemptedUsers ==
    { syncLog[i].user : i \in { j \in 1..Len(syncLog) : syncLog[j].kind = "courses_fetch" } }

(* C14: the scheduled sync attempts every stored connection: an exception  *)
(* while syncing one user is recorded in userErrors for that user and the  *)
(* loop goes on, so every connection is counted as succeeded or failed and *)
(* the run answers 200 with its tallies.                                   *)
C14_ScheduledSyncAttemptsEveryUser ==
    ScheduledSync =>
        /\ sync.user_errors = RaisedUsers
        /\ sync.users_failed = Cardinality(RaisedUsers)
        /\ sync.users_succeeded + sync.users_failed
              = Len(StoredConnections) - Len(sync.queue)
        /\ sync.pc \in {"finish", "done"} =>
              /\ sync.queue = <<>>
              /\ AttemptedUsers = Range(StoredConnections)
        /\ sync.pc = "done" =>
              /\ sync.response.status = 200
              /\ sync.response.userErrors = RaisedUsers
              /\ sync.response.usersFailed = sync.users_failed
              /\ sync.response.usersSucceeded = sync.users_succeeded

\* a finished scheduled sync in which the first user failed after mirroring
\* nothing and the second user was synced and mirrored a material
C14_Witness ==
    /\ ScheduledSync
    /\ sync.pc = "done"
    /\ sync.response.userErrors = {"u1"}
    /\ sync.response.usersSucceeded = 1
    /\ \E i \in 1..Len(syncLog) : syncLog[i].kind = "mirror" /\ syncLog[i].user = "u2"


ScheduledSyncDone == ScheduledSync /\ sync.pc = "done"

\* the materials mirrored and stored for users whose sync did not raise
CountedMirrors ==
    Cardinality({ i \in 1..Len(syncLog) :
                    syncLog[i].kind = "material_row" /\ syncLog[i].user \notin RaisedUsers })

(* C15 as stated: a scheduled run emits exactly one KB trigger when any    *)
(* material was mirrored for any user during the run, and none when no     *)
(* material was mirrored.                                                  *)
C15_OneKbTriggerIffAnyMirrored ==
    ScheduledSyncDone =>
        CountKind(syncLog, "kb_trigger") =
            IF CountKind(syncLog, "mirror") > 0 THEN 1 ELSE 0

(* C15 amended: a scheduled run calls start_ingestion_job exactly once     *)
(* when its materialsMirrored tally (the materials mirrored for the users  *)
(* whose sync completed) is positive and both KB ids are configured, and   *)
(* never otherwise.                                                        *)
C15_OneKbTriggerIffTallyAndConfigured ==
    ScheduledSyncDone =>
        /\ sync.response.materialsMirrored = CountedMirrors
        /\ CountKind(syncLog, "kb_trigger") =
              IF sync.response.materialsMirrored > 0 /\ KbConfigured(apiEnv)
              THEN 1 ELSE 0

\* a finished scheduled run in which both users mirrored a material and one
\* trigger was emitted
C15_Witness ==
    /\ ScheduledSyncDone
    /\ sync.response.usersSucceeded = 2
    /\ \A u \in Users : \E i \in 1..Len(syncLog) :
          syncLog[i].kind = "mirror" /\ syncLog[i].user = u
    /\ CountKind(syncLog, "kb_trigger") = 1


\* the step in which review r is applied: its put_item
ReviewApplied(r) ==
    /\ reviews[r].pc = "read"
    /\ reviews'[r].pc = "done"
    /\ reviews'[r].applied

\* reps and lapses of the fsrsState of a row, 0 for a row without one
RepsOf(row) == IF row.fsrsState.present THEN row.fsrsState.reps ELSE 0
LapsesOf(row) == IF row.fsrsState.present THEN row.fsrsState.lapses ELSE 0
ReviewCountOf(row) == IF row.reviewCount = NoNumber THEN 0 ELSE row.reviewCount

\* what an applied review stores, against the row the review read
ReviewCountsByOne(r) ==
    LET before == reviews[r].row
        after == cards'[reviews[r].payload.cardId]
        again == reviews[r].payload.rating <= 1
    IN /\ after.fsrsState.present
       /\ RepsOf(after) = RepsOf(before) + 1
       /\ LapsesOf(after) = LapsesOf(before) + (IF again THEN 1 ELSE 0)
       /\ ReviewCountOf(after) = ReviewCountOf(before) + 1

(* C16: each review applied to a stored card stores reps one above the     *)
(* reps of the row it read, lapses one above exactly when the FSRS rating  *)
(* is 1 and unchanged otherwise, and reviewCount one above.                *)
C16_ReviewCountsByOne ==
    [][\A r \in 1..MaxReviews : ReviewApplied(r) => ReviewCountsByOne(r)]_vars

\* a card reviewed twice in a row, one of them rated "again": two
\* repetitions, one lapse, two reviews counted
C16_Witness ==
    /\ "k1" \in DOMAIN cards
    /\ cards["k1"].fsrsState.present
    /\ cards["k1"].fsrsState.reps = 2
    /\ cards["k1"].fsrsState.lapses = 1
    /\ cards["k1"].reviewCount = 2
    /\ cards["k1"].fsrsState.lastReviewedAt = 30


(* C17: after any sequence of card generations and reviews, every stored   *)
(* card that has an fsrsState has dueAt equal to fsrsState.dueAt.          *)
C17_DueAtMirrorsFsrsState ==
    \A k \in DOMAIN cards :
        cards[k].fsrsState.present => cards[k].dueAt = cards[k].fsrsState.dueAt

\* a card generated at hour 30 and then reviewed "good" at hour 30: its
\* dueAt moved from the generation time to the scheduled one
C17_Witness ==
    /\ "k1" \in DOMAIN cards
    /\ cards["k1"].fsrsState.present
    /\ cards["k1"].fsrsState.lastReviewedAt = 30
    /\ cards["k1"].dueAt = 54
    /\ generations >= 1

----------------------------------------------------------------------------
(* Properties of the calendar tokens and the ICS feed *)

\* the three relations between the fields of one record or stored item
RecordSound(revoked, revoked_at, created_at, updated_at) ==
    /\ revoked <=> revoked_at # NoTime
    /\ updated_at >= created_at
    /\ revoked_at # NoTime => revoked_at >= updated_at

\* C18: after any sequence of mint and revoke operations, every calendar
\* token record that was returned or stored has revoked true exactly when
\* revokedAt is set, updatedAt >= createdAt and revokedAt >= updatedAt.
C18_TokenRecordsSound ==
    /\ \A token \in DOMAIN calendarTokens :
          LET item == calendarTokens[token]
          IN RecordSound(item.revoked, item.revokedAt, item.createdAt, item.updatedAt)
    /\ lastRecord.record # NoRecord =>
          RecordSound(lastRecord.record.revoked, lastRecord.record.revoked_at,
                      lastRecord.record.created_at, lastRecord.record.updated_at)
    /\ revocation.pc = "read" =>
          RecordSound(revocation.record.revoked, revocation.record.revoked_at,
                      revocation.record.created_at, revocation.record.updated_at)

\* a revoke returned a revoked record later than its creation, and it is stored
C18_Witness ==
    /\ lastRecord.op = "revoke"
    /\ lastRecord.record.revoked
    /\ lastRecord.record.revoked_at > lastRecord.record.created_at
    /\ lastRecord.record.token \in DOMAIN calendarTokens
    /\ calendarTokens[lastRecord.record.token] = to_item(lastRecord.record)

\* C19: a feed lookup treats a revoked token as missing: the request whose
\* lookup found a revoked record gets the answer an unknown token gets, a
\* 404, and no calendar events.
C19_RevokedTokenIsMissing ==
    (feed.pc = "done" /\ feed.read.found /\ feed.read.record.revoked) =>
        /\ feed.response = CalendarAnswer(NotFoundRead, canvasData)
        /\ feed.response.status = 404
        /\ feed.response.events = <<>>

\* a revoked token of a user with schedule items was looked up and answered
C19_Witness ==
    /\ feed.pc = "done"
    /\ feed.read.found
    /\ feed.read.record.revoked
    /\ _load_schedule_items_for_user(canvasData, feed.read.record.user_id) # <<>>

StartsWith(s, prefix) ==
    Len(s) >= Len(prefix) /\ SubSeq(s, 1, Len(prefix)) = prefix

\* the item rows of other users in the partitions a feed of user_id queries
ForeignRowsQueried(table, user_id) ==
    { key \in DOMAIN table :
        /\ table[key].entityType = "CanvasItem"
        /\ table[key].userId # user_id
        /\ \E i \in 1..Len(FeedCourseIds) :
              /\ FeedCourseIds[i] \in Range(QueriedCourseIds(table, user_id))
              /\ key.pk = <<"USER#">> \o user_id \o <<"#COURSE#">> \o FeedCourseIds[i] }

\* C20: a calendar feed served for a token contains only schedule items
\* written for the user the token is bound to, each with a UID that starts
\* with studybuddy:{that user's id}:, and no item of any other user.
C20_FeedOnlyBoundUsersItems ==
    (feed.pc = "done" /\ feed.response.status = 200) =>
        \A i \in 1..Len(feed.response.events) :
            /\ feed.response.events[i].writtenFor = feed.read.record.user_id
            /\ StartsWith(feed.response.events[i].uid,
                          <<"studybuddy:">> \o feed.read.record.user_id \o <<":">>)

\* a feed with an event was served while a partition it read held an item
\* row of another user
C20_Witness ==
    /\ feed.pc = "done"
    /\ feed.response.status = 200
    /\ feed.response.events # <<>>
    /\ ForeignRowsQueried(canvasData, feed.read.record.user_id) # {}

\* the UID of every event of the feed built last
UidsAsSpecified ==
    evaluation.built =>
        \A i \in 1..Len(evaluation.events) :
            evaluation.events[i].uid =
                <<"studybuddy:">> \o evaluation.user_id \o <<":">>
                    \o evaluation.item.courseId \o <<":">> \o evaluation.item.id

\* the feed built after the item changed names the item as the feed before
UidKeptByBuild ==
    (evaluation.built /\ evaluation.events # <<>> /\ evaluation.before # <<>>) =>
        evaluation.events[1].uid = evaluation.before[1].uid

\* C21: in every ICS feed the UID of an item is
\* studybuddy:{userId}:{courseId}:{itemId}, and it is the same in the feed
\* built after any change of the item's title, dueAt, startAt or endAt.
C21_UidStable == UidsAsSpecified /\ UidKeptByBuild

\* two feeds of one item differ in SUMMARY, DTSTAMP, DTSTART and DTEND
C21_Witness ==
    /\ evaluation.built
    /\ evaluation.events # <<>>
    /\ evaluation.before # <<>>
    /\ evaluation.events[1].summary # evaluation.before[1].summary
    /\ evaluation.events[1].dtstamp # evaluation.before[1].dtstamp
    /\ evaluation.events[1].dtstart # evaluation.before[1].dtstart
    /\ evaluation.events[1].dtend # evaluation.before[1].dtend

\* C22: every VEVENT of every ICS feed has a DTEND strictly later than its
\* DTSTART, for all values of the item's dueAt, startAt and endAt.
C22_DtendAfterDtstart ==
    evaluation.built =>
        \A i \in 1..Len(evaluation.events) :
            evaluation.events[i].dtend > evaluation.events[i].dtstart

\* the scope rule of a source for a course: its object key, after an
\* optional uploads/ prefix, is {C}/... or canvas-materials/{user}/{C}/...
InScope(source, course_id) ==
    LET key_parts == KeyParts(source)
        parts == IF key_parts # <<>> /\ key_parts[1] = "uploads" THEN Tail(key_parts)
                 ELSE key_parts
    IN /\ Len(parts) >= 2
       /\ \/ parts[1] = course_id
          \/ Len(parts) >= 4 /\ parts[1] = "canvas-materials" /\ parts[3] = course_id

\* the retrieved results with text whose source is in scope
ScopedResults ==
    LET InCourse(entry) == InScope(entry.source, evaluation.course_id)
    IN SelectSeq(AllValid(evaluation.rows), InCourse)

\* C23: every retrieval result returned to generation has a source in scope
\* for the requested course, unless no retrieved result was in scope.
C23_ReturnedResultsInScope ==
    (evaluation.done /\ ~evaluation.result.raised) =>
        \/ \A i \in 1..Len(evaluation.result.context) :
              InScope(evaluation.result.context[i].source, evaluation.course_id)
        \/ ScopedResults = <<>>

----------------------------------------------------------------------------
(* Properties of the chat and generation requests *)

\* the question matches one of the prompt-injection or cheating patterns
QuestionMatches(question) ==
    LET text == [i \in 1..Len(question) |-> LowerWord(question[i])]
    IN \/ AnySearch(_PROMPT_INJECTION_PATTERNS, text)
       \/ AnySearch(_CHEATING_PATTERNS, text)

(* C24: a chat question that matches a prompt-injection or cheating        *)
(* pattern is rejected with GuardrailBlockedError before any call: the     *)
(* request is over as soon as it entered the handler, and it has made no   *)
(* KB retrieval and no model call.                                         *)
C24_GateBeforeRetrieval ==
    (generation.route = "/chat" /\ QuestionMatches(generation.question))
        => /\ generation.pc = "done"
           /\ generation.exc = "GuardrailBlockedError"
           /\ generation.calls = <<>>

\* a cheating question was rejected, after an earlier request made calls
C24_Witness ==
    /\ generation.pc = "done"
    /\ generation.route = "/chat"
    /\ generation.question = <<"cheat", "on", "the", "exam">>
    /\ generation.exc = "GuardrailBlockedError"
    /\ generation.calls = <<>>

(* C25: a request that ended with a generation or KB error has left the    *)
(* cards table exactly as it was when the request entered its handler.     *)
C25_ErrorLeavesCardsUntouched ==
    (generation.pc = "done" /\ IsInstance(generation.exc, "GenerationError"))
        => cards = generation.before

\* a flashcard request failed at the model, with cards of an earlier
\* request in the table
C25_Witness ==
    /\ generation.pc = "done"
    /\ generation.route = "/generate/flashcards"
    /\ generation.exc = "GuardrailBlockedError"
    /\ generation.calls = <<"retrieve", "invoke_model">>
    /\ generation.before # << >>
    /\ cards = generation.before

(* C26: a request blocked by the guardrails is answered with the safe      *)
(* refusal (status 200, the refusal answer) on POST /chat and with a 502   *)
(* error response on every other route.                                   *)
C26_GuardrailBlockedRendering ==
    (generation.pc = "done" /\ generation.exc = "GuardrailBlockedError")
        => IF generation.route = "/chat"
           THEN generation.response =
                   GenerationResponse(200, "answer", GUARDRAIL_BLOCKED_CHAT_ANSWER)
           ELSE generation.response.status = 502

----------------------------------------------------------------------------
(* Properties of the dispatcher *)

\* the header is there, and is the configured value when one is configured
FromConfiguration(header, configured) ==
    /\ header # NoHeader
    /\ Strip(configured) # <<>> => header = Strip(configured)

(* C27: every response of the dispatcher, whatever the route and the       *)
(* outcome, carries Access-Control-Allow-Origin, -Methods and -Headers,    *)
(* each with the value of its configuration variable when that is set.     *)
C27_EveryResponseCarriesCors ==
    (evaluation.fn = "lambda_handler" /\ evaluation.done)
        => /\ FromConfiguration(evaluation.response.headers.allow_origin,
                                evaluation.cors.origin)
           /\ FromConfiguration(evaluation.response.headers.allow_methods,
                                evaluation.cors.methods)
           /\ FromConfiguration(evaluation.response.headers.allow_headers,
                                evaluation.cors.headers)

\* an error response of a text-answering route, under a configured origin
C27_Witness ==
    /\ evaluation.fn = "lambda_handler"
    /\ evaluation.done
    /\ evaluation.handler = "_handle_calendar"
    /\ evaluation.response.statusCode = 404
    /\ evaluation.cors.origin = <<" ", "https://gurt.app", " ">>
    /\ evaluation.response.headers.allow_origin = <<"https://gurt.app">>

----------------------------------------------------------------------------
(* Properties of GET /study/today *)

\* 0 <= dueAt - now <= 7 days of the resolved exam
InNearWindow(exam_due_at, now) ==
    /\ exam_due_at # NoTime
    /\ 0 <= exam_due_at - now
    /\ exam_due_at - now <= 7 * TicksPerDay

\* the cards of the course that are not due and whose topic has a mean
\* mastery below 0.5
LowMasteryNotDue(rows, now) ==
    { rows[i].id : i \in { k \in 1..Len(rows) :
        /\ rows[k].dueAt > now
        /\ LowMastery(_compute_topic_mastery(rows, rows[k].topicId)) } }

Ids(cards_) == { cards_[i].id : i \in 1..Len(cards_) }

(* C28: GET /study/today appends boosters exactly when the resolved exam   *)
(* is due within 0 to 7 days of now, both ends included: then every card   *)
(* that is not due and whose topic mastery is low is appended, and with    *)
(* no resolved exam or an exam outside the window nothing is appended.     *)
C28_BoostersIffNearExam ==
    (evaluation.fn = "_runtime_study_today" /\ evaluation.done)
        => LET result == evaluation.result
           IN /\ result.near_exam = InNearWindow(result.exam_due_at, evaluation.now)
              /\ Ids(result.boosters) =
                    IF InNearWindow(result.exam_due_at, evaluation.now)
                    THEN LowMasteryNotDue(evaluation.rows, evaluation.now)
                    ELSE {}

\* the exam is due on the last instant of the window and boosters came back
C28_Witness ==
    /\ evaluation.fn = "_runtime_study_today"
    /\ evaluation.done
    /\ evaluation.result.exam_due_at - evaluation.now = 7 * TicksPerDay
    /\ evaluation.result.boosters # <<>>
    /\ evaluation.result.due_cards # <<>>
    /\ \E i \in 1..Len(evaluation.result.returned) :
          evaluation.result.returned[i] \in Ids(evaluation.result.boosters)

\* the sequence is ordered by the key
Ordered(rows, Less(_, _)) == \A i, j \in 1..Len(rows) : i < j => ~Less(rows[j], rows[i])

\* due cards by (dueAt, id), then boosters by (topicMastery, dueAt, id),
\* nothing else, nothing twice, cut to 50
DueThenBoosters(result, rows, now) ==
    LET Less(a, b) == MasteryDueAtIdLess(rows, a, b)
        listed == IdsOf(result.due_cards \o result.boosters)
    IN /\ Ids(result.due_cards) = { rows[i].id : i \in { k \in 1..Len(rows) : rows[k].dueAt <= now } }
       /\ Ordered(result.due_cards, DueAtIdLess)
       /\ Ids(result.boosters) \subseteq LowMasteryNotDue(rows, now)
       /\ Ordered(result.boosters, Less)
       /\ Len(result.returned) <= 50
       /\ result.returned = FirstK(listed, 50)
       /\ \A i, j \in 1..Len(result.returned) : i # j => result.returned[i] # result.returned[j]

(* C29 as stated: the result of GET /study/today is the due cards ordered  *)
(* by (dueAt, id) followed by the boosters ordered by (topicMastery,       *)
(* dueAt, id), each card once, at most 50 cards.                           *)
C29_DueThenBoosters ==
    (evaluation.fn = "_runtime_study_today" /\ evaluation.done)
        => DueThenBoosters(evaluation.result, evaluation.rows, evaluation.now)

\* no card is due and no booster is appended
NothingChosen(result) == result.due_cards = <<>> /\ result.boosters = <<>>

(* C29 amended: when a card is due or a booster is appended, the result is  *)
(* the due cards ordered by (dueAt, id) followed by the boosters ordered    *)
(* by (topicMastery, dueAt, id), each card once, at most 50 cards; when     *)
(* neither is, it is the first 5 cards of the course by (dueAt, id).        *)
C29_DueThenBoostersOrFirstFive ==
    (evaluation.fn = "_runtime_study_today" /\ evaluation.done)
        => IF NothingChosen(evaluation.result)
           THEN evaluation.result.returned =
                   FirstK(IdsOf(SortedBy(evaluation.rows, "dueAt, id", evaluation.rows)), 5)
           ELSE DueThenBoosters(evaluation.result, evaluation.rows, evaluation.now)

\* more than 50 cards were chosen, due cards and boosters, and 50 came back
C29_Witness ==
    /\ evaluation.fn = "_runtime_study_today"
    /\ evaluation.done
    /\ Len(evaluation.result.due_cards) + Len(evaluation.result.boosters) > 50
    /\ evaluation.result.boosters # <<>>
    /\ Len(evaluation.result.returned) = 50

----------------------------------------------------------------------------
(* Properties of the scheduler *)

(* C30: whatever the prior state (or none), the rating in 1..4 and the     *)
(* review time, the state schedule_review returns has a stability of at    *)
(* least 0.15, a difficulty between 1 and 10, and a dueAt that is not      *)
(* before its lastReviewedAt.                                              *)
C30_ScheduledStateInRange ==
    (evaluation.fn = "schedule_review" /\ evaluation.done /\ ~evaluation.result.raised)
        => LET state == evaluation.result.state
           IN /\ state.stability >= 15
              /\ state.difficulty >= 100
              /\ state.difficulty <= 1000
              /\ state.dueAt >= state.lastReviewedAt

\* a lapse on a card of minimal stability and maximal difficulty, reviewed
\* before its recorded last review
C30_Witness ==
    /\ evaluation.fn = "schedule_review"
    /\ evaluation.done
    /\ ~evaluation.result.raised
    /\ evaluation.prior_state.present
    /\ evaluation.prior_state.stability = 1
    /\ evaluation.prior_state.difficulty = 2000
    /\ evaluation.prior_state.lastReviewedAt > evaluation.now
    /\ evaluation.rating = 1
    /\ evaluation.result.state.stability = 15
    /\ evaluation.result.state.difficulty = 1000

----------------------------------------------------------------------------
(* Properties of concurrent reviews, generation over stored cards and the  *)
(* answers of POST /study/review                                           *)

\* the reviews that were answered accepted: true after their put_item
AppliedReviews ==
    {r \in 1..MaxReviews : reviews[r].pc = "done" /\ reviews[r].applied}

\* no review runs between its read and its write
NoReviewInFlight == \A r \in 1..MaxReviews : reviews[r].pc # "read"

\* the one card stored, stored by a single generation
StoredOnce == generations = 1 /\ DOMAIN cards = {"k1"}

(* C31: after n reviews of one stored card have been answered accepted:    *)
(* true, in any interleaving, the card's reviewCount and fsrsState.reps    *)
(* have each grown by n.                                                   *)
C31_NoAcceptedReviewLost ==
    (StoredOnce /\ NoReviewInFlight) =>
        /\ ReviewCountOf(cards["k1"]) = Cardinality(AppliedReviews)
        /\ RepsOf(cards["k1"]) = Cardinality(AppliedReviews)

\* each applied review read the row after the write of the one before it:
\* no two of them read the same counters
ReadOneAfterAnother ==
    \A r, q \in AppliedReviews :
        r # q => ReviewCountOf(reviews[r].row) # ReviewCountOf(reviews[q].row)

(* C31 (amended): after n accepted reviews of one stored card, each of     *)
(* which read the row after the write of the one before it, reviewCount    *)
(* and reps have each grown by n; when reviews overlap the last writer     *)
(* wins, and the counters have grown by at least one and at most n.        *)
C31_NoSequentialReviewLost ==
    (StoredOnce /\ NoReviewInFlight /\ AppliedReviews # {}) =>
        LET n == Cardinality(AppliedReviews)
            count == ReviewCountOf(cards["k1"])
        IN /\ RepsOf(cards["k1"]) = count
           /\ count >= 1
           /\ count <= n
           /\ ReadOneAfterAnother => count = n

\* two accepted reviews of the generated card, the second of which read the
\* row the first had written
C31_Witness ==
    /\ StoredOnce
    /\ NoReviewInFlight
    /\ Cardinality(AppliedReviews) = 2
    /\ ReadOneAfterAnother
    /\ cards["k1"].reviewCount = 2

\* a step that is one put_item of _persist_generated_cards
GenerationPut == generations' = generations + 1

(* C35: generating flashcards never changes the review state of a card     *)
(* that is already stored: its fsrsState, dueAt and reviewCount are the    *)
(* same after a generation's write as before it.                           *)
C35_GenerationKeepsReviewState ==
    [][GenerationPut =>
          \A k \in DOMAIN cards :
              /\ cards'[k].fsrsState = cards[k].fsrsState
              /\ cards'[k].dueAt = cards[k].dueAt
              /\ cards'[k].reviewCount = cards[k].reviewCount]_vars

(* C36: every POST /study/review request is answered with an HTTP          *)
(* response: 400 when validation rejects the payload, 200 once validation  *)
(* has accepted it; no accepted payload ends the handler without one.      *)
C36_EveryReviewAnswered ==
    \A r \in 1..MaxReviews :
        reviews[r].pc = "done" => reviews[r].response \in {"200", "400"}

(* C37: with a cards table configured, POST /study/review answers          *)
(* accepted: true only when the review was applied to a stored card; a     *)
(* review of an unknown cardId, or of a card of another course, is not     *)
(* answered accepted.                                                      *)
C37_AcceptedOnlyIfApplied ==
    \A r \in 1..MaxReviews :
        (reviews[r].pc = "done" /\ reviews[r].response = "200") => reviews[r].applied

----------------------------------------------------------------------------
(* Properties of the job row across start and finalize *)

(* C32: a job row in status RUNNING exists only for a job whose workflow   *)
(* execution was started: when start_execution fails in POST /docs/ingest  *)
(* no RUNNING row of that job is left in the table.                        *)
C32_RunningRowHasExecution ==
    \A j \in DOMAIN docs :
        docs[j].status = "RUNNING" => exec[j].pc # "not_started"

\* the status, error and textLength of the rows an invocation left
StatusFields(rows) ==
    {[status |-> row.status, error |-> row.error, textLength |-> row.textLength] :
        row \in rows}

\* the client tokens an invocation submitted
ClientTokens(calls) == {call.clientToken : call \in calls}

(* C38: finalize is idempotent under retries: running it twice with the    *)
(* same payload leaves the job row with the same status, error, textLength *)
(* and KB-trigger metadata as running it once, and the retry submits the   *)
(* same KB client token.                                                   *)
C38_FinalizeIdempotent ==
    [][lastFinalize'.retried =>
          /\ lastFinalize'.rows = lastFinalize.rows
          /\ ClientTokens(lastFinalize'.calls) = ClientTokens(lastFinalize.calls)]_vars

(* C38 (amended): a retry with the same payload leaves the row with the    *)
(* same status, error and textLength and submits the same client token;    *)
(* the KB-trigger metadata is the same too when start_ingestion_job has    *)
(* the same outcome in both runs, and is that of the retry alone when it   *)
(* does not.                                                               *)
C38_FinalizeIdempotentGivenKbOutcome ==
    [][lastFinalize'.retried =>
          /\ lastFinalize'.outcome = "returned"
          /\ StatusFields(lastFinalize'.rows) = StatusFields(lastFinalize.rows)
          /\ ClientTokens(lastFinalize'.calls) = ClientTokens(lastFinalize.calls)
          /\ lastFinalize'.kbRaises = lastFinalize.kbRaises
                => lastFinalize'.rows = lastFinalize.rows]_vars

\* a retried invocation of a FINISHED job with the KB configured: the call
\* was made again and the row carries the ingestion job id
C38_Witness ==
    /\ lastFinalize.retried
    /\ invocations = 2
    /\ lastFinalize.written = "FINISHED"
    /\ lastFinalize.calls # {}
    /\ ~lastFinalize.kbRaises
    /\ \E row \in lastFinalize.rows : row.kbIngestionJobId # NoAttr


\* the row carries KB-trigger metadata
HasKbMetadata(row) == row.kbIngestionJobId # NoAttr \/ row.kbIngestionError # NoAttr

(* C39: KB-trigger metadata is patched after the terminal transition: the  *)
(* KB call and the write of kbIngestionJobId or kbIngestionError come only *)
(* after the terminal status has been written, so a RUNNING row never      *)
(* carries KB-trigger metadata, and the row a FINISHED finalize leaves     *)
(* carries the metadata patched onto it.                                   *)
C39_KbMetadataAfterTerminal ==
    /\ \A j \in DOMAIN docs : docs[j].status = "RUNNING" => ~HasKbMetadata(docs[j])
    /\ \A call \in kbCalls :
          call.jobId \in DOMAIN docs /\ docs[call.jobId].status = "FINISHED"
    /\ (lastFinalize.outcome = "returned" /\ lastFinalize.written = "FINISHED")
          => \A row \in lastFinalize.rows : row.status = "FINISHED" /\ HasKbMetadata(row)

\* a job that went through the workflow with the KB configured: the call
\* was made and its row is FINISHED with the ingestion job id
C39_Witness ==
    /\ kbCalls # {}
    /\ \E j \in DOMAIN docs :
          /\ exec[j].pc = "succeeded"
          /\ docs[j].status = "FINISHED"
          /\ docs[j].kbIngestionJobId # NoAttr
          /\ statusHistory[j] = <<"RUNNING", "FINISHED">>


----------------------------------------------------------------------------
(* Properties of stored calendar tokens over time *)

\* what a feed lookup with a stored token meets in a table
LookupRefused(table, token) == FeedRefused(get(table, token))

(* C33: revocation is permanent: once a stored token is revoked, no later  *)
(* mint, get or revoke, in either minting mode, makes a feed lookup with   *)
(* that token succeed again.                                               *)
C33_RevocationIsPermanent ==
    [][\A token \in DOMAIN calendarTokens :
          LookupRefused(calendarTokens, token)
              => LookupRefused(calendarTokens', token)]_vars

(* C34: the user a stored token is bound to never changes: no mint request *)
(* of another user makes a token that identified one user's feed identify  *)
(* another user's feed.                                                    *)
C34_TokenKeepsItsUser ==
    [][\A token \in DOMAIN calendarTokens :
          /\ token \in DOMAIN calendarTokens'
          /\ calendarTokens'[token].userId = calendarTokens[token].userId]_vars

----------------------------------------------------------------------------
(* Properties of the exam window of GET /study/today *)

\* the dueAt of the exams of the course that examId names
NamedExamTimes(items, exam_id) ==
    { items[i].dueAt : i \in { n \in 1..Len(items) :
                                 /\ items[n].id = exam_id
                                 /\ items[n].itemType = "exam"
                                 /\ items[n].dueAt >= 0 } }

\* the dueAt of the exams of the course that are not past
UpcomingExamTimes(items, now) ==
    { items[i].dueAt : i \in { n \in 1..Len(items) :
                                 /\ items[n].itemType = "exam"
                                 /\ items[n].dueAt >= now } }

(* C40: when GET /study/today is given an examId, the exam window is       *)
(* resolved from the dueAt of the item it names and from nothing else (no  *)
(* window when it names no exam); the nearest exam not yet past is used    *)
(* only when no examId is given.                                           *)
C40_ExamIdDecidesWindow ==
    (evaluation.fn = "_runtime_study_today" /\ evaluation.done) =>
        LET resolved == evaluation.result.exam_due_at
            named == NamedExamTimes(evaluation.items, evaluation.exam_id)
            upcoming == UpcomingExamTimes(evaluation.items, evaluation.now)
        IN IF evaluation.exam_id # NoExamId
           THEN /\ resolved \in named \cup {NoTime}
                /\ named # {} => resolved # NoTime
           ELSE /\ resolved \in upcoming \cup {NoTime}
                /\ upcoming # {} =>
                      /\ resolved # NoTime
                      /\ \A t \in upcoming : resolved <= t

\* examId names an exam beyond the seven days while another exam of the
\* course is two ticks away: the window is the named exam's, and not near
C40_Witness ==
    /\ evaluation.fn = "_runtime_study_today"
    /\ evaluation.done
    /\ evaluation.exam_id = <<"E", "1">>
    /\ Len(evaluation.items) = 2
    /\ evaluation.result.exam_due_at = StudyNow + timedelta(_STUDY_TODAY_NEAR_EXAM_DAYS) + 1
    /\ ~evaluation.result.near_exam
    /\ UpcomingExamTimes(evaluation.items, evaluation.now) # {}
    /\ \E t \in UpcomingExamTimes(evaluation.items, evaluation.now) :
          t <= evaluation.now + timedelta(_STUDY_TODAY_NEAR_EXAM_DAYS)

====
